---- MODULE Spec2Model ----
(***************************************************************************)
(* Evidence verification and signal derivation of the IRSB watchtower.     *)
(*                                                                         *)
(* Strings whose characters matter (paths) are sequences of one-character  *)
(* strings; NUL stands for the character \0.  Hashes are collision free:   *)
(* sha256Hex(x) is the tagged value <<"sha256", x>>.                       *)
(***************************************************************************)
EXTENDS Integers, Sequences, FiniteSets, TLC

VARIABLES
  \* path safety guard, applied to one path string
  pathIn, baseIn, pathOut,
  \* one call of verifyEvidence
  receipt, runDir, pc, idx, manifest, failures, evidenceLinks, fs, trace, result,
  \* calls of normalizeReceipt: their arguments and what they returned
  normIn, normOut,
  \* calls of ingestReceipt: the files on disk, the clock, the store, the calls made
  disk, now, db, ingestLog,
  \* the call of deriveBehaviorSignals on the result of verifyEvidence
  deriveOut,
  \* the requests POST /v1/receipts/ingest has answered, with the answers
  replies,
  \* a CircuitBreaker, the calls in flight through it, a run of withRetry,
  \* and what has happened to the breaker so far
  breaker, callers, retry, hist

pathVars == <<pathIn, baseIn, pathOut>>
verifyVars == <<receipt, runDir, pc, idx, manifest, failures, evidenceLinks, fs, trace, result,
                deriveOut>>
normVars == <<normIn, normOut>>
ingestVars == <<disk, now, db, ingestLog>>
serviceVars == <<replies, breaker, callers, retry, hist>>
vars == <<pathIn, baseIn, pathOut,
          receipt, runDir, pc, idx, manifest, failures, evidenceLinks, fs, trace, result,
          normIn, normOut, disk, now, db, ingestLog, deriveOut,
          replies, breaker, callers, retry, hist>>

(***************************************************************************)
(* Bounds of the model.                                                    *)
(***************************************************************************)
MaxPathLen == 4
MaxDepth == 3
MaxDelivered == 2
MaxClock == 3
MaxIngests == 2

(***************************************************************************)
(* String helpers (String.prototype.startsWith / includes, split, join).   *)
(***************************************************************************)
NUL == "NUL"
Null == <<"null">>
Undefined == <<"undefined">>

startsWith(s, prefix) ==
  /\ Len(prefix) <= Len(s)
  /\ SubSeq(s, 1, Len(prefix)) = prefix

includes(s, sub) ==
  \E i \in 1..(Len(s) - Len(sub) + 1) : SubSeq(s, i, i + Len(sub) - 1) = sub

RECURSIVE SplitAcc(_, _, _)
SplitAcc(s, cur, acc) ==
  IF s = <<>> THEN Append(acc, cur)
  ELSE IF Head(s) = "/" THEN SplitAcc(Tail(s), <<>>, Append(acc, cur))
  ELSE SplitAcc(Tail(s), Append(cur, Head(s)), acc)

\* the "/"-separated segments of a path string
Segments(s) == SplitAcc(s, <<>>, <<>>)

RECURSIVE join(_, _)
join(parts, sep) ==
  IF parts = <<>> THEN <<>>
  ELSE IF Len(parts) = 1 THEN parts[1]
  ELSE parts[1] \o sep \o join(Tail(parts), sep)

(***************************************************************************)
(* node:path (POSIX): isAbsolute, normalize, resolve.                      *)
(***************************************************************************)
DotDot == <<".", ".">>

isAbsolute(path) == Len(path) > 0 /\ path[1] = "/"

\* normalizeString: "." and empty segments dropped, ".." pops the previous
\* segment unless that is itself "..", and is kept only if allowAboveRoot
RECURSIVE NormalizeSegs(_, _, _)
NormalizeSegs(segs, acc, allowAboveRoot) ==
  IF segs = <<>> THEN acc
  ELSE LET seg == Head(segs)
           rest == Tail(segs)
       IN IF seg = <<>> \/ seg = <<".">> THEN NormalizeSegs(rest, acc, allowAboveRoot)
          ELSE IF seg = DotDot
          THEN IF Len(acc) > 0 /\ acc[Len(acc)] # DotDot
               THEN NormalizeSegs(rest, SubSeq(acc, 1, Len(acc) - 1), allowAboveRoot)
               ELSE IF allowAboveRoot
               THEN NormalizeSegs(rest, Append(acc, DotDot), allowAboveRoot)
               ELSE NormalizeSegs(rest, acc, allowAboveRoot)
          ELSE NormalizeSegs(rest, Append(acc, seg), allowAboveRoot)

normalizeString(path, allowAboveRoot) ==
  join(NormalizeSegs(Segments(path), <<>>, allowAboveRoot), <<"/">>)

normalize(path) ==
  IF Len(path) = 0 THEN <<".">>
  ELSE LET abs == isAbsolute(path)
           trailing == path[Len(path)] = "/"
           n == normalizeString(path, ~abs)
       IN IF Len(n) = 0
          THEN (IF abs THEN <<"/">> ELSE IF trailing THEN <<".", "/">> ELSE <<".">>)
          ELSE LET t == IF trailing THEN n \o <<"/">> ELSE n
               IN IF abs THEN <<"/">> \o t ELSE t

\* process.cwd() of the watchtower process
Cwd == <<"/", "w">>

\* resolve(a, b): the rightmost absolute argument wins, empty arguments are
\* skipped, the working directory is used if neither is absolute
resolve2(a, b) ==
  LET raw == IF isAbsolute(b) THEN b
             ELSE IF Len(b) = 0 THEN (IF isAbsolute(a) THEN a ELSE Cwd \o <<"/">> \o a)
             ELSE IF isAbsolute(a) THEN a \o <<"/">> \o b
             ELSE Cwd \o <<"/">> \o a \o <<"/">> \o b
  IN <<"/">> \o normalizeString(raw, FALSE)

resolve(a) == resolve2(a, <<>>)

(***************************************************************************)
(* Path safety guard.                                                      *)
(***************************************************************************)
validateRelativePath_NoAbsoluteCheck(path) ==
  IF Len(path) = 0 THEN [valid |-> FALSE, reason |-> "Path is empty"]
  ELSE LET normalized == normalize(path)
       IN IF \/ startsWith(normalized, DotDot)
             \/ includes(normalized, <<"/", ".", ".">>)
             \/ includes(normalized, <<"\\", ".", ".">>)
          THEN [valid |-> FALSE, reason |-> "Path traversal not allowed"]
          ELSE IF includes(path, <<NUL>>)
          THEN [valid |-> FALSE, reason |-> "Null bytes not allowed in path"]
          ELSE [valid |-> TRUE, reason |-> ""]

validateRelativePath(path) ==
  IF Len(path) = 0 THEN [valid |-> FALSE, reason |-> "Path is empty"]
  ELSE IF isAbsolute(path)
  THEN [valid |-> FALSE, reason |-> "Absolute paths not allowed"]
  ELSE LET normalized == normalize(path)
       IN IF \/ startsWith(normalized, DotDot)
             \/ includes(normalized, <<"/", ".", ".">>)
             \/ includes(normalized, <<"\\", ".", ".">>)
          THEN [valid |-> FALSE, reason |-> "Path traversal not allowed"]
          ELSE IF includes(path, <<NUL>>)
          THEN [valid |-> FALSE, reason |-> "Null bytes not allowed in path"]
          ELSE [valid |-> TRUE, reason |-> ""]

safeJoin_PrefixWithoutSeparator(baseDir, relativePath) ==
  LET base == resolve(baseDir)
      joined == resolve2(base, relativePath)
  IN IF ~startsWith(joined, base) /\ joined # base
     THEN Null
     ELSE joined

safeJoin(baseDir, relativePath) ==
  LET base == resolve(baseDir)
      joined == resolve2(base, relativePath)
  IN IF ~startsWith(joined, base \o <<"/">>) /\ joined # base
     THEN Null
     ELSE joined

(***************************************************************************)
(* Hashing and the manifest document.                                      *)
(*                                                                         *)
(* The bytes of a file are a record [kind, id, obj]: kind "json" holds the *)
(* object obj, written with its keys in the order obj.keys; kind "garbage" *)
(* is not JSON; kind "blob" is artifact content number id.                 *)
(***************************************************************************)
sha256Hex(bytes) == <<"sha256", bytes>>

ManifestKeys == <<"manifestVersion", "intentId", "runId", "jobType", "createdAt",
                  "artifacts", "policyDecision", "executionSummary", "solver">>

Range(s) == {s[i] : i \in 1..Len(s)}

ArtifactEntry(path, sha, bytes) ==
  [path |-> path, sha256 |-> sha, bytes |-> bytes, contentType |-> "text/plain"]

ManifestFields(version, intentId, runId, jobType, createdAt, artifacts, status) ==
  [manifestVersion |-> version, intentId |-> intentId, runId |-> runId,
   jobType |-> jobType, createdAt |-> createdAt, artifacts |-> artifacts,
   policyDecision |-> [allowed |-> TRUE, reasons |-> <<>>],
   executionSummary |-> [status |-> status],
   solver |-> [service |-> "irsb-solver", serviceVersion |-> "1.0.0"]]

Blob(n) == [kind |-> "blob", id |-> n, obj |-> <<>>]

Garbage == [kind |-> "garbage", id |-> 0, obj |-> <<>>]

JsonBytes(obj) == [kind |-> "json", id |-> 0, obj |-> obj]

\* JSON.parse(bytes.toString('utf-8')): throws on anything but JSON
JSON_parse(bytes) == [ok |-> bytes.kind = "json", value |-> bytes.obj]

IsSha256(x) == x[1] = "sha256"

ArtifactEntrySchema(a) ==
  /\ IsSha256(a.sha256)
  /\ a.bytes \in Nat

\* z.string().datetime(): the ISO 8601 strings among those the model uses
IsDatetime(x) == x \in {"2025-01-15T12:00:00Z", "2025-01-16T12:00:00Z"}

SolverReceiptV0Schema(obj) ==
  /\ Range(ManifestKeys) \subseteq Range(obj.keys)
  /\ obj.fields.manifestVersion = "0.1.0"
  /\ IsDatetime(obj.fields.createdAt)
  /\ \A i \in 1..Len(obj.fields.artifacts) : ArtifactEntrySchema(obj.fields.artifacts[i])
  /\ obj.fields.executionSummary.status \in {"SUCCESS", "FAILED", "REFUSED"}
  /\ obj.fields.solver.service = "irsb-solver"

safeParse(obj) == [success |-> SolverReceiptV0Schema(obj), data |-> obj.fields]

(***************************************************************************)
(* localeCompare and the code-unit order of strings.                       *)
(*                                                                         *)
(* String.prototype.localeCompare is the ICU root collation: punctuation   *)
(* before letters, letters by letter first (primary level) and, between    *)
(* strings equal up to case, lower case before upper case.                 *)
(***************************************************************************)
CollationOrder == <<",", ".", "/", "\\", "a", "b", "e", "m", "r", "w">>

Lower(ch) == IF ch = "A" THEN "a" ELSE IF ch = "B" THEN "b" ELSE ch

IsUpper(ch) == ch \in {"A", "B"}

PrimaryRank(ch) == CHOOSE i \in 1..Len(CollationOrder) : CollationOrder[i] = Lower(ch)

\* UTF-16 code units
CharCode(ch) ==
  CASE ch = "," -> 44 [] ch = "." -> 46 [] ch = "/" -> 47
    [] ch = "A" -> 65 [] ch = "B" -> 66 [] ch = "\\" -> 92
    [] ch = "a" -> 97 [] ch = "b" -> 98 [] ch = "e" -> 101
    [] ch = "m" -> 109 [] ch = "r" -> 114 [] ch = "w" -> 119

Sign(n) == IF n < 0 THEN -1 ELSE IF n > 0 THEN 1 ELSE 0

\* lexicographic comparison of two sequences of numbers
RECURSIVE LexCompareNat(_, _)
LexCompareNat(a, b) ==
  IF a = <<>> /\ b = <<>> THEN 0
  ELSE IF a = <<>> THEN -1
  ELSE IF b = <<>> THEN 1
  ELSE IF Head(a) # Head(b) THEN Sign(Head(a) - Head(b))
  ELSE LexCompareNat(Tail(a), Tail(b))

\* lexicographic comparison of two strings by a rank of their characters
LexCompare(a, b, Rank(_)) ==
  LexCompareNat([i \in 1..Len(a) |-> Rank(a[i])], [i \in 1..Len(b) |-> Rank(b[i])])

CaseRank(ch) == IF IsUpper(ch) THEN 1 ELSE 0

localeCompare(a, b) ==
  LET primary == LexCompare(a, b, PrimaryRank)
  IN IF primary # 0 THEN primary ELSE LexCompare(a, b, CaseRank)

codeUnitCompare(a, b) == LexCompare(a, b, CharCode)

(***************************************************************************)
(* verifyEvidence: types, limits and the filesystem calls.                 *)
(*                                                                         *)
(* A file is [exists, statOk, size, readOk, content]: existsSync answers   *)
(* exists and never throws, statSync throws unless statOk, readFileSync    *)
(* throws unless readOk (a directory in place of a file, a permission      *)
(* error).  Every call is recorded in the trace with the absolute path it  *)
(* was given and the index of the artifact it served (0: the manifest).    *)
(***************************************************************************)
FailureCodes ==
  <<"ARTIFACT_HASH_MISMATCH", "ARTIFACT_NOT_FOUND", "ARTIFACT_SIZE_MISMATCH",
    "ARTIFACT_TOO_LARGE", "DELIVERED_MISMATCH", "MANIFEST_HASH_MISMATCH",
    "MANIFEST_NOT_FOUND", "MANIFEST_PARSE_FAIL", "MANIFEST_READ_ERROR",
    "MANIFEST_SCHEMA_INVALID", "MANIFEST_TOO_LARGE", "UNSAFE_PATH">>

DEFAULT_MAX_MANIFEST_BYTES == 2 * 1024 * 1024
DEFAULT_MAX_ARTIFACT_BYTES == 10 * 1024 * 1024

Failure(code, message, path) == [code |-> code, message |-> message, path |-> path]

existsSync(file) == file.exists
statSync(file) == [threw |-> ~file.statOk, size |-> file.size]
readFileSync_ErrorsAsEmpty(file) ==
  [threw |-> FALSE, bytes |-> IF file.readOk THEN file.content ELSE Garbage]

readFileSync(file) == [threw |-> ~file.readOk, bytes |-> file.content]

FsOps == {"exists", "stat", "read"}

Step(op, i, path) == [op |-> op, idx |-> i, path |-> path]

NoManifest == ManifestFields("", "", "", "", "", <<>>, "")

\* what a group of checks hands back: the failures it pushed, the evidence
\* links it pushed, the calls it made, whether verifyEvidence returns there
\* and whether an exception escaped
Outcome(fl, links, log, returned, threw, data) ==
  [failures |-> fl, links |-> links, log |-> log, returned |-> returned,
   threw |-> threw, manifest |-> data]

ReturnWith(failure, log) == Outcome(<<failure>>, <<>>, log, TRUE, FALSE, NoManifest)

(***************************************************************************)
(* Steps 1 to 6 of verifyEvidence, last step first.                        *)
(***************************************************************************)
\* 6. validate the manifest schema
ManifestSchemaStep(rcpt, obj, log) ==
  LET schemaResult == safeParse(obj)
      log2 == Append(log, Step("schema", 0, rcpt.manifestPath))
  IN IF ~schemaResult.success
     THEN ReturnWith(Failure("MANIFEST_SCHEMA_INVALID", "Manifest schema invalid",
                             rcpt.manifestPath), log2)
     ELSE Outcome(<<>>, <<>>, log2, FALSE, FALSE, schemaResult.data)

\* 5. parse the manifest JSON
ManifestParseStep(rcpt, manifestBytes, log) ==
  LET parsed == JSON_parse(manifestBytes)
      log2 == Append(log, Step("parse", 0, rcpt.manifestPath))
  IN IF ~parsed.ok
     THEN ReturnWith(Failure("MANIFEST_PARSE_FAIL", "Manifest is not valid JSON",
                             rcpt.manifestPath), log2)
     ELSE ManifestSchemaStep(rcpt, parsed.value, log2)

ManifestHashStep_ParseFirst(rcpt, manifestBytes, log) ==
  LET parsed == JSON_parse(manifestBytes)
      log2 == Append(log, Step("parse", 0, rcpt.manifestPath))
  IN IF ~parsed.ok
     THEN ReturnWith(Failure("MANIFEST_PARSE_FAIL", "Manifest is not valid JSON",
                             rcpt.manifestPath), log2)
     ELSE IF sha256Hex(manifestBytes) # rcpt.manifestSha256
     THEN ReturnWith(Failure("MANIFEST_HASH_MISMATCH", "Manifest hash mismatch",
                             rcpt.manifestPath),
                     Append(log2, Step("hash", 0, rcpt.manifestPath)))
     ELSE ManifestSchemaStep(rcpt, parsed.value, Append(log2, Step("hash", 0, rcpt.manifestPath)))

ManifestHashStep_NoReturn(rcpt, manifestBytes, log) ==
  LET log2 == Append(log, Step("hash", 0, rcpt.manifestPath))
      next == ManifestParseStep(rcpt, manifestBytes, log2)
  IN IF sha256Hex(manifestBytes) # rcpt.manifestSha256
     THEN [next EXCEPT !.failures =
             <<Failure("MANIFEST_HASH_MISMATCH", "Manifest hash mismatch",
                       rcpt.manifestPath)>> \o @]
     ELSE next

\* 4b. hash the manifest bytes and compare with the receipt
ManifestHashStep(rcpt, manifestBytes, log) ==
  LET actualManifestHash == sha256Hex(manifestBytes)
      log2 == Append(log, Step("hash", 0, rcpt.manifestPath))
  IN IF actualManifestHash # rcpt.manifestSha256
     THEN ReturnWith(Failure("MANIFEST_HASH_MISMATCH", "Manifest hash mismatch",
                             rcpt.manifestPath), log2)
     ELSE ManifestParseStep(rcpt, manifestBytes, log2)

\* 4a. read the manifest bytes
ManifestReadStep(rcpt, manifestAbsPath, file, log) ==
  LET read == readFileSync(file)
      log2 == Append(log, Step("read", 0, manifestAbsPath))
  IN IF read.threw
     THEN ReturnWith(Failure("MANIFEST_READ_ERROR", "Cannot read manifest",
                             rcpt.manifestPath), log2)
     ELSE ManifestHashStep(rcpt, read.bytes, log2)

ManifestSizeStep_AtLimitTooLarge(rcpt, manifestAbsPath, file, log, maxManifestBytes) ==
  LET stat == statSync(file)
      log2 == Append(log, Step("stat", 0, manifestAbsPath))
  IN IF stat.threw
     THEN ReturnWith(Failure("MANIFEST_READ_ERROR", "Cannot stat manifest",
                             rcpt.manifestPath), log2)
     ELSE IF stat.size >= maxManifestBytes
     THEN ReturnWith(Failure("MANIFEST_TOO_LARGE", "Manifest exceeds limit",
                             rcpt.manifestPath), log2)
     ELSE ManifestReadStep(rcpt, manifestAbsPath, file, log2)

\* 3. check the manifest size
ManifestSizeStep(rcpt, manifestAbsPath, file, log, maxManifestBytes) ==
  LET stat == statSync(file)
      log2 == Append(log, Step("stat", 0, manifestAbsPath))
  IN IF stat.threw
     THEN ReturnWith(Failure("MANIFEST_READ_ERROR", "Cannot stat manifest",
                             rcpt.manifestPath), log2)
     ELSE IF stat.size > maxManifestBytes
     THEN ReturnWith(Failure("MANIFEST_TOO_LARGE", "Manifest exceeds limit",
                             rcpt.manifestPath), log2)
     ELSE ManifestReadStep(rcpt, manifestAbsPath, file, log2)

\* 2. check the manifest exists
ManifestExistsStep(rcpt, manifestAbsPath, file, maxManifestBytes) ==
  LET log == <<Step("exists", 0, manifestAbsPath)>>
  IN IF ~existsSync(file)
     THEN ReturnWith(Failure("MANIFEST_NOT_FOUND", "Manifest not found",
                             rcpt.manifestPath), log)
     ELSE ManifestSizeStep(rcpt, manifestAbsPath, file, log, maxManifestBytes)

GuardedPath_Unchecked(dir, relPath) ==
  [ok |-> TRUE, message |-> "", abs |-> resolve2(resolve(dir), relPath)]

\* validateRelativePath, then safeJoin: the absolute path to use, or the
\* reason the path is refused
GuardedPath(dir, relPath) ==
  LET pathCheck == validateRelativePath(relPath)
      abs == safeJoin(dir, relPath)
  IN IF ~pathCheck.valid THEN [ok |-> FALSE, message |-> "path unsafe", abs |-> Null]
     ELSE IF abs = Null
     THEN [ok |-> FALSE, message |-> "path escapes run directory", abs |-> Null]
     ELSE [ok |-> TRUE, message |-> "", abs |-> abs]

\* 1. validate the manifest path; file is what is on disk at the path
ManifestChecks(rcpt, dir, file, maxManifestBytes) ==
  LET guarded == GuardedPath(dir, rcpt.manifestPath)
  IN IF ~guarded.ok
     THEN ReturnWith(Failure("UNSAFE_PATH", "Manifest " \o guarded.message,
                             rcpt.manifestPath), <<>>)
     ELSE ManifestExistsStep(rcpt, guarded.abs, file, maxManifestBytes)

(***************************************************************************)
(* Step 7: delivered[] against the manifest's artifacts.                   *)
(***************************************************************************)
\* [...list].sort((a, b) => a.path.localeCompare(b.path)): a stable sort
RECURSIVE InsertByPath(_, _)
InsertByPath(sorted, a) ==
  IF sorted = <<>> THEN <<a>>
  ELSE IF localeCompare(a.path, Head(sorted).path) < 0 THEN <<a>> \o sorted
  ELSE <<Head(sorted)>> \o InsertByPath(Tail(sorted), a)

RECURSIVE SortByPathFrom(_, _)
SortByPathFrom(list, acc) ==
  IF list = <<>> THEN acc
  ELSE SortByPathFrom(Tail(list), InsertByPath(acc, Head(list)))

sortByPath(list) == SortByPathFrom(list, <<>>)

Paths(list) == [i \in 1..Len(list) |-> list[i].path]

DeliveredMismatch(data, rcpt) ==
  LET manifestPaths == join(Paths(sortByPath(data.artifacts)), <<",">>)
      deliveredPaths == join(Paths(sortByPath(rcpt.delivered)), <<",">>)
  IN IF manifestPaths # deliveredPaths
     THEN <<Failure("DELIVERED_MISMATCH",
                    "Receipt delivered[] does not match manifest artifacts", Undefined)>>
     ELSE <<>>

(***************************************************************************)
(* Step 8: the checks of one artifact of receipt.delivered, last first.    *)
(* fl holds the failures this artifact has pushed so far.                  *)
(***************************************************************************)
Continue(fl, links, log) == Outcome(fl, links, log, FALSE, FALSE, NoManifest)

ArtifactHashStep_LinkOnlyOnMatch(artifact, i, artBytes, fl, log) ==
  LET actualArtHash == sha256Hex(artBytes)
      log2 == Append(log, Step("hash", i, artifact.path))
      link == [type |-> "artifactSha256", ref |-> artifact.sha256]
  IN IF actualArtHash # artifact.sha256
     THEN Continue(Append(fl, Failure("ARTIFACT_HASH_MISMATCH", "Artifact hash mismatch",
                                      artifact.path)), <<>>, log2)
     ELSE Continue(fl, <<link>>, log2)

ArtifactHashStep(artifact, i, artBytes, fl, log) ==
  LET actualArtHash == sha256Hex(artBytes)
      log2 == Append(log, Step("hash", i, artifact.path))
      link == [type |-> "artifactSha256", ref |-> artifact.sha256]
  IN IF actualArtHash # artifact.sha256
     THEN Continue(Append(fl, Failure("ARTIFACT_HASH_MISMATCH", "Artifact hash mismatch",
                                      artifact.path)), <<link>>, log2)
     ELSE Continue(fl, <<link>>, log2)

ArtifactReadStep_ErrorIgnored(artifact, i, artAbsPath, file, fl, log) ==
  LET read == readFileSync(file)
      log2 == Append(log, Step("read", i, artAbsPath))
  IN IF read.threw
     THEN Continue(fl, <<>>, log2)
     ELSE ArtifactHashStep(artifact, i, read.bytes, fl, log2)

ArtifactReadStep(artifact, i, artAbsPath, file, fl, log) ==
  LET read == readFileSync(file)
      log2 == Append(log, Step("read", i, artAbsPath))
  IN IF read.threw
     THEN Continue(Append(fl, Failure("ARTIFACT_NOT_FOUND", "Cannot read artifact",
                                      artifact.path)), <<>>, log2)
     ELSE ArtifactHashStep(artifact, i, read.bytes, fl, log2)

ArtifactSizeStep_Uncaught(artifact, i, artAbsPath, file, log, maxArtifactBytes) ==
  LET stat == statSync(file)
      log2 == Append(log, Step("stat", i, artAbsPath))
  IN IF stat.threw
     THEN Outcome(<<>>, <<>>, log2, FALSE, TRUE, NoManifest)
     ELSE IF stat.size > maxArtifactBytes
     THEN Continue(<<Failure("ARTIFACT_TOO_LARGE", "Artifact exceeds limit",
                             artifact.path)>>, <<>>, log2)
     ELSE ArtifactReadStep(artifact, i, artAbsPath, file,
            IF stat.size # artifact.bytes
            THEN <<Failure("ARTIFACT_SIZE_MISMATCH", "Artifact size mismatch",
                           artifact.path)>>
            ELSE <<>>, log2)

ArtifactSizeStep_MismatchSkipsHash(artifact, i, artAbsPath, file, log, maxArtifactBytes) ==
  LET stat == statSync(file)
      log2 == Append(log, Step("stat", i, artAbsPath))
  IN IF stat.threw
     THEN Continue(<<Failure("ARTIFACT_NOT_FOUND", "Cannot stat artifact",
                             artifact.path)>>, <<>>, log2)
     ELSE IF stat.size > maxArtifactBytes
     THEN Continue(<<Failure("ARTIFACT_TOO_LARGE", "Artifact exceeds limit",
                             artifact.path)>>, <<>>, log2)
     ELSE IF stat.size # artifact.bytes
     THEN Continue(<<Failure("ARTIFACT_SIZE_MISMATCH", "Artifact size mismatch",
                             artifact.path)>>, <<>>, log2)
     ELSE ArtifactReadStep(artifact, i, artAbsPath, file, <<>>, log2)

ArtifactSizeStep(artifact, i, artAbsPath, file, log, maxArtifactBytes) ==
  LET stat == statSync(file)
      log2 == Append(log, Step("stat", i, artAbsPath))
  IN IF stat.threw
     THEN Continue(<<Failure("ARTIFACT_NOT_FOUND", "Cannot stat artifact",
                             artifact.path)>>, <<>>, log2)
     ELSE IF stat.size > maxArtifactBytes
     THEN Continue(<<Failure("ARTIFACT_TOO_LARGE", "Artifact exceeds limit",
                             artifact.path)>>, <<>>, log2)
     ELSE ArtifactReadStep(artifact, i, artAbsPath, file,
            IF stat.size # artifact.bytes
            THEN <<Failure("ARTIFACT_SIZE_MISMATCH", "Artifact size mismatch",
                           artifact.path)>>
            ELSE <<>>, log2)

ArtifactExistsStep(artifact, i, artAbsPath, file, log, maxArtifactBytes) ==
  LET log2 == Append(log, Step("exists", i, artAbsPath))
  IN IF ~existsSync(file)
     THEN Continue(<<Failure("ARTIFACT_NOT_FOUND", "Artifact not found",
                             artifact.path)>>, <<>>, log2)
     ELSE ArtifactSizeStep(artifact, i, artAbsPath, file, log2, maxArtifactBytes)

\* the absolute path the checks of an artifact (or of the manifest) read
ArtifactGuard_Unchecked(dir, artifact) == GuardedPath_Unchecked(dir, artifact.path)

ArtifactGuard(dir, artifact) == GuardedPath(dir, artifact.path)

ArtifactChecks(artifact, i, dir, file, maxArtifactBytes) ==
  LET guarded == ArtifactGuard(dir, artifact)
      log == <<Step("artifact", i, artifact.path)>>
  IN IF ~guarded.ok
     THEN Continue(<<Failure("UNSAFE_PATH", "Artifact " \o guarded.message,
                             artifact.path)>>, <<>>, log)
     ELSE ArtifactExistsStep(artifact, i, guarded.abs, file, log, maxArtifactBytes)

\* for (const artifact of receipt.delivered)
ArtifactsToCheck(rcpt, data) == rcpt.delivered

NextArtifact_BreakOnFailure(i, n, out) == IF out.failures = <<>> THEN i + 1 ELSE n + 1

\* every branch of the loop body ends the iteration (continue), none the loop
NextArtifact(i, n, out) == i + 1

(***************************************************************************)
(* buildResult.                                                            *)
(***************************************************************************)
\* a.code.localeCompare(b.code): the codes are upper-case words that first
\* differ in a letter, so their collation order is that of FailureCodes
CodeRank(code) == CHOOSE i \in 1..Len(FailureCodes) : FailureCodes[i] = code

PathOrEmpty(f) == IF f.path = Undefined THEN <<>> ELSE f.path

compareFailures(a, b) ==
  LET codeDiff == Sign(CodeRank(a.code) - CodeRank(b.code))
  IN IF codeDiff # 0 THEN codeDiff
     ELSE localeCompare(PathOrEmpty(a), PathOrEmpty(b))

RECURSIVE InsertFailure(_, _)
InsertFailure(sorted, f) ==
  IF sorted = <<>> THEN <<f>>
  ELSE IF compareFailures(f, Head(sorted)) < 0 THEN <<f>> \o sorted
  ELSE <<Head(sorted)>> \o InsertFailure(Tail(sorted), f)

RECURSIVE SortFailuresFrom(_, _)
SortFailuresFrom(list, acc) ==
  IF list = <<>> THEN acc
  ELSE SortFailuresFrom(Tail(list), InsertFailure(acc, Head(list)))

buildResult_OkIgnoresPathless(fl, links) ==
  LET sorted == SortFailuresFrom(fl, <<>>)
  IN [ok |-> \A i \in 1..Len(sorted) : sorted[i].path = Undefined,
      failures |-> sorted, evidenceLinks |-> links]

buildResult(fl, links) ==
  LET sorted == SortFailuresFrom(fl, <<>>)
  IN [ok |-> Len(sorted) = 0, failures |-> sorted, evidenceLinks |-> links]

(***************************************************************************)
(* One call verifyEvidence(receipt, runDir), step by step.  The call has   *)
(* no options argument: the limits are the defaults.  What is on disk at a *)
(* path is chosen when the call first touches the path and then kept (fs). *)
(***************************************************************************)
SeqsUpTo(S, n) == UNION {[1..k -> S] : k \in 0..n}

\* 'evidence/manifest.json', shortened
ManifestPath == <<"e", "/", "m">>

RunDirs == {<<"/", "r">>, <<"/">>}
ManifestPathsIn == {ManifestPath, <<".", ".", "/", "m">>}
ArtifactPathsIn == {<<"a">>, <<"B">>, <<".", ".", "/", "a">>}

DeclaredArtifact(path) == ArtifactEntry(path, sha256Hex(Blob(1)), 1)
DeclaredArtifacts == {DeclaredArtifact(path) : path \in ArtifactPathsIn}

ManifestDoc(version, artifacts) ==
  JsonBytes([keys |-> ManifestKeys,
             fields |-> ManifestFields(version, "i1", "r1", "j1", "2025-01-15T12:00:00Z",
                                       artifacts, "SUCCESS")])

ManifestContents ==
  {Garbage, ManifestDoc("9.9.9", <<>>), ManifestDoc("0.1.0", <<>>),
   ManifestDoc("0.1.0", <<DeclaredArtifact(<<"a">>)>>),
   ManifestDoc("0.1.0", <<DeclaredArtifact(<<"B">>), DeclaredArtifact(<<"a">>)>>)}

File(exists, statOk, size, readOk, content) ==
  [exists |-> exists, statOk |-> statOk, size |-> size, readOk |-> readOk,
   content |-> content]

MissingFile == File(FALSE, FALSE, 0, FALSE, Garbage)

ManifestFiles ==
  {MissingFile,
   File(TRUE, FALSE, 0, FALSE, Garbage),
   File(TRUE, TRUE, DEFAULT_MAX_MANIFEST_BYTES + 1, TRUE, Garbage),
   File(TRUE, TRUE, DEFAULT_MAX_MANIFEST_BYTES, FALSE, Garbage)}
  \cup {File(TRUE, TRUE, DEFAULT_MAX_MANIFEST_BYTES, TRUE, c) : c \in ManifestContents}

ArtifactFiles ==
  {MissingFile,
   File(TRUE, FALSE, 0, FALSE, Garbage),
   File(TRUE, TRUE, DEFAULT_MAX_ARTIFACT_BYTES + 1, TRUE, Blob(1))}
  \cup {File(TRUE, TRUE, size, FALSE, Garbage) : size \in {1, DEFAULT_MAX_ARTIFACT_BYTES}}
  \cup {File(TRUE, TRUE, size, TRUE, Blob(n)) :
          size \in {1, DEFAULT_MAX_ARTIFACT_BYTES}, n \in {1, 2}}

ReceiptsIn ==
  [receiptId : {sha256Hex(<<>>)},
   manifestPath : ManifestPathsIn,
   manifestSha256 : {sha256Hex(c) : c \in ManifestContents},
   delivered : SeqsUpTo(DeclaredArtifacts, MaxDelivered)]

EvidenceBase(rcpt) ==
  <<[type |-> "receiptId", ref |-> rcpt.receiptId],
    [type |-> "manifestSha256", ref |-> rcpt.manifestSha256]>>

NoResult == [ok |-> FALSE, failures |-> <<>>, evidenceLinks |-> <<>>]
NotDerived == [called |-> FALSE, observedAt |-> 0, signals |-> <<>>]
NoFs == [path \in {} |-> MissingFile]
NoPathOut == [checked |-> FALSE, valid |-> FALSE, joined |-> Null]
\* idle values of the service variables in the specifications that do not use them
NoBreaker == [state |-> "closed", failures |-> 0, successes |-> 0, lastFailureTime |-> 0]
NoRetry == [pc |-> "idle"]
EmptyDb == [agents |-> <<>>, snapshots |-> <<>>, reports |-> <<>>, alerts |-> <<>>]

\* the paths the filesystem calls of a log were given
Touched(log) == {log[k].path : k \in {j \in 1..Len(log) : log[j].op \in FsOps}}

\* the files that may be found at the paths a group of checks touches
FileChoices(touched, files) ==
  IF touched = {} THEN {MissingFile}
  ELSE IF touched \subseteq DOMAIN fs THEN {fs[path] : path \in touched}
  ELSE files

Remember(log, file) ==
  [path \in DOMAIN fs \cup Touched(log) |->
     IF path \in DOMAIN fs THEN fs[path] ELSE file]

IdleReceipt ==
  [receiptId |-> sha256Hex(<<>>), manifestPath |-> ManifestPath,
   manifestSha256 |-> sha256Hex(Garbage), delivered |-> <<>>]

VerifyInit ==
  /\ receipt \in ReceiptsIn
  /\ runDir \in RunDirs
  /\ pc = "start"
  /\ idx = 0
  /\ manifest = NoManifest
  /\ failures = <<>>
  /\ evidenceLinks = <<>>
  /\ fs = NoFs
  /\ trace = <<>>
  /\ result = NoResult
  /\ pathIn = <<>>
  /\ baseIn = <<>>
  /\ pathOut = NoPathOut
  /\ normIn = <<>>
  /\ normOut = <<>>
  /\ disk = NoFs
  /\ now = 0
  /\ db = EmptyDb
  /\ ingestLog = <<>>
  /\ deriveOut = NotDerived
  /\ replies = <<>>
  /\ breaker = NoBreaker
  /\ callers = <<>>
  /\ retry = NoRetry
  /\ hist = <<>>

\* steps 1 to 7: the manifest checks, then delivered[] against the manifest
VerifyManifest ==
  /\ pc = "start"
  /\ \E file \in FileChoices(Touched(ManifestChecks(receipt, runDir, MissingFile,
                                                    DEFAULT_MAX_MANIFEST_BYTES).log),
                             ManifestFiles) :
       LET out == ManifestChecks(receipt, runDir, file, DEFAULT_MAX_MANIFEST_BYTES)
       IN /\ fs' = Remember(out.log, file)
          /\ trace' = out.log
          /\ evidenceLinks' = EvidenceBase(receipt)
          /\ IF out.threw
             THEN /\ pc' = "thrown"
                  /\ failures' = out.failures
                  /\ UNCHANGED <<idx, manifest, result>>
             ELSE IF out.returned
             THEN /\ pc' = "done"
                  /\ failures' = out.failures
                  /\ result' = buildResult(out.failures, EvidenceBase(receipt))
                  /\ UNCHANGED <<idx, manifest>>
             ELSE /\ pc' = "artifacts"
                  /\ idx' = 1
                  /\ manifest' = out.manifest
                  /\ failures' = out.failures \o DeliveredMismatch(out.manifest, receipt)
                  /\ UNCHANGED result
  /\ UNCHANGED <<receipt, runDir, deriveOut>>
  /\ UNCHANGED <<pathVars, normVars, ingestVars, serviceVars>>

\* step 8: one iteration of the loop over the artifacts
VerifyArtifact ==
  /\ pc = "artifacts"
  /\ LET list == ArtifactsToCheck(receipt, manifest)
     IN /\ idx <= Len(list)
        /\ \E file \in FileChoices(Touched(ArtifactChecks(list[idx], idx, runDir, MissingFile,
                                                         DEFAULT_MAX_ARTIFACT_BYTES).log),
                                   ArtifactFiles) :
             LET out == ArtifactChecks(list[idx], idx, runDir, file,
                                       DEFAULT_MAX_ARTIFACT_BYTES)
             IN /\ fs' = Remember(out.log, file)
                /\ trace' = trace \o out.log
                /\ failures' = failures \o out.failures
                /\ evidenceLinks' = evidenceLinks \o out.links
                /\ IF out.threw
                   THEN pc' = "thrown" /\ idx' = idx
                   ELSE pc' = pc /\ idx' = NextArtifact(idx, Len(list), out)
  /\ UNCHANGED <<receipt, runDir, manifest, result, deriveOut>>
  /\ UNCHANGED <<pathVars, normVars, ingestVars, serviceVars>>

\* return buildResult(failures, evidenceLinks)
VerifyReturn ==
  /\ pc = "artifacts"
  /\ idx > Len(ArtifactsToCheck(receipt, manifest))
  /\ result' = buildResult(failures, evidenceLinks)
  /\ pc' = "done"
  /\ UNCHANGED <<receipt, runDir, idx, manifest, failures, evidenceLinks, fs, trace, deriveOut>>
  /\ UNCHANGED <<pathVars, normVars, ingestVars, serviceVars>>

VerifyNext == VerifyManifest \/ VerifyArtifact \/ VerifyReturn

SpecVerify == VerifyInit /\ [][VerifyNext]_vars

(***************************************************************************)
(* The path safety guard applied to every short path string.               *)
(***************************************************************************)
PathChars == {"/", ".", "a", "\\", NUL}
BaseDirs == {<<"/", "a">>, <<"/">>, <<"a">>}

PathInit ==
  /\ pathIn \in SeqsUpTo(PathChars, MaxPathLen)
  /\ baseIn \in BaseDirs
  /\ pathOut = NoPathOut
  /\ receipt = IdleReceipt
  /\ runDir = <<>>
  /\ pc = "idle"
  /\ idx = 0
  /\ manifest = NoManifest
  /\ failures = <<>>
  /\ evidenceLinks = <<>>
  /\ fs = NoFs
  /\ trace = <<>>
  /\ result = NoResult
  /\ normIn = <<>>
  /\ normOut = <<>>
  /\ disk = NoFs
  /\ now = 0
  /\ db = EmptyDb
  /\ ingestLog = <<>>
  /\ deriveOut = NotDerived
  /\ replies = <<>>
  /\ breaker = NoBreaker
  /\ callers = <<>>
  /\ retry = NoRetry
  /\ hist = <<>>

GuardPath ==
  /\ ~pathOut.checked
  /\ pathOut' = [checked |-> TRUE,
                 valid |-> validateRelativePath(pathIn).valid,
                 joined |-> safeJoin(baseIn, pathIn)]
  /\ UNCHANGED <<pathIn, baseIn>>
  /\ UNCHANGED <<verifyVars, normVars, ingestVars, serviceVars>>

PathNext == GuardPath

SpecPath == PathInit /\ [][PathNext]_vars

(***************************************************************************)
(* canonicalJson (utils/canonical): the keys of every object sorted        *)
(* lexicographically at every nesting level, no whitespace.                *)
(*                                                                         *)
(* A JSON value is an object (its entries <<key, value>> in insertion      *)
(* order), an array or an atom (a string, a number).  The canonical text   *)
(* is kept structured, "{" entries "}" and "[" items "]", and is handed to *)
(* sha256Hex as the bytes of kind "text".                                  *)
(***************************************************************************)
JsonObject(entries) == [t |-> "object", v |-> entries]
JsonArray(items) == [t |-> "array", v |-> items]
JsonAtom(x) == [t |-> "atom", v |-> x]

\* object keys, in code-unit order
ObjectKeys ==
  <<"agentId", "createdAt", "evidence", "intentId", "jobType", "manifestSha256", "observedAt",
    "ref", "runId", "severity", "signalId", "signals", "type", "weight">>

KeyRank(key) == CHOOSE i \in 1..Len(ObjectKeys) : ObjectKeys[i] = key

RECURSIVE InsertEntry(_, _)
InsertEntry(sorted, entry) ==
  IF sorted = <<>> THEN <<entry>>
  ELSE IF KeyRank(entry[1]) < KeyRank(Head(sorted)[1]) THEN <<entry>> \o sorted
  ELSE <<Head(sorted)>> \o InsertEntry(Tail(sorted), entry)

RECURSIVE SortEntriesFrom(_, _)
SortEntriesFrom(entries, acc) ==
  IF entries = <<>> THEN acc
  ELSE SortEntriesFrom(Tail(entries), InsertEntry(acc, Head(entries)))

RECURSIVE CanonicalText(_)
CanonicalText(value) ==
  IF value.t = "object"
  THEN LET sorted == SortEntriesFrom(value.v, <<>>)
       IN <<"{", [i \in 1..Len(sorted) |->
                    <<sorted[i][1], CanonicalText(sorted[i][2])>>], "}">>
  ELSE IF value.t = "array"
  THEN <<"[", [i \in 1..Len(value.v) |-> CanonicalText(value.v[i])], "]">>
  ELSE <<value.v>>

TextBytes(text) == [kind |-> "text", id |-> 0, obj |-> text]

canonicalJson(value) == TextBytes(CanonicalText(value))

(***************************************************************************)
(* normalizeReceipt.  A manifest is the object [keys, fields]: its fields  *)
(* and the insertion order of its top-level keys.                          *)
(***************************************************************************)
ReceiptIdInput_WithCreatedAt(m, manifestSha256) ==
  JsonObject(<<<<"intentId", JsonAtom(m.intentId)>>,
               <<"runId", JsonAtom(m.runId)>>,
               <<"jobType", JsonAtom(m.jobType)>>,
               <<"createdAt", JsonAtom(m.createdAt)>>,
               <<"manifestSha256", JsonAtom(manifestSha256)>>>>)

\* the object literal { intentId, runId, jobType, manifestSha256 }
ReceiptIdInput(m, manifestSha256) ==
  JsonObject(<<<<"intentId", JsonAtom(m.intentId)>>,
               <<"runId", JsonAtom(m.runId)>>,
               <<"jobType", JsonAtom(m.jobType)>>,
               <<"manifestSha256", JsonAtom(manifestSha256)>>>>)

normalizeReceipt(manifestObj, manifestSha256) ==
  LET m == manifestObj.fields
      sorted == sortByPath(m.artifacts)
      delivered == [i \in 1..Len(sorted) |->
                      [path |-> sorted[i].path, sha256 |-> sorted[i].sha256,
                       bytes |-> sorted[i].bytes, contentType |-> sorted[i].contentType]]
      receiptId == sha256Hex(canonicalJson(ReceiptIdInput(m, manifestSha256)))
  IN [receiptId |-> receiptId,
      receiptVersion |-> m.manifestVersion,
      intentId |-> m.intentId,
      runId |-> m.runId,
      jobType |-> m.jobType,
      status |-> m.executionSummary.status,
      manifestPath |-> ManifestPath,
      manifestSha256 |-> manifestSha256,
      delivered |-> delivered]

(***************************************************************************)
(* Two calls of normalizeReceipt on valid manifests.                       *)
(***************************************************************************)
Reverse(s) == [i \in 1..Len(s) |-> s[Len(s) + 1 - i]]

\* the fields normalizeReceipt does not put into the receipt id
OtherFields ==
  [createdAt : {"2025-01-15T12:00:00Z", "2025-01-16T12:00:00Z"},
   artifacts : {<<>>, <<DeclaredArtifact(<<"a">>)>>},
   status : {"SUCCESS", "FAILED"},
   serviceVersion : {"1.0.0", "1.0.1"}]

\* the fields normalizeReceipt puts into the receipt id
IdFields ==
  {[intentId |-> "i1", runId |-> "r1", jobType |-> "j1"],
   [intentId |-> "i2", runId |-> "r1", jobType |-> "j1"],
   [intentId |-> "i1", runId |-> "r2", jobType |-> "j1"],
   [intentId |-> "i1", runId |-> "r1", jobType |-> "j2"]}

ManifestObjects ==
  {[keys |-> keys,
    fields |-> [ManifestFields("0.1.0", id.intentId, id.runId, id.jobType,
                               other.createdAt, other.artifacts, other.status)
                  EXCEPT !.solver.serviceVersion = other.serviceVersion]] :
     keys \in {ManifestKeys, Reverse(ManifestKeys)}, id \in IdFields, other \in OtherFields}

ValidManifests == {obj \in ManifestObjects : SolverReceiptV0Schema(obj)}

ManifestHashes == {sha256Hex(Blob(1)), sha256Hex(Blob(2))}

NoReceipt ==
  [receiptId |-> sha256Hex(<<>>), receiptVersion |-> "", intentId |-> "", runId |-> "",
   jobType |-> "", status |-> "", manifestPath |-> ManifestPath,
   manifestSha256 |-> sha256Hex(Garbage), delivered |-> <<>>]

NotCalled == [called |-> FALSE, receipt |-> NoReceipt]

NormalizeInit ==
  /\ normIn \in [1..2 -> [manifest : ValidManifests, manifestSha256 : ManifestHashes]]
  /\ normOut = [k \in 1..2 |-> NotCalled]
  /\ pathIn = <<>>
  /\ baseIn = <<>>
  /\ pathOut = NoPathOut
  /\ receipt = IdleReceipt
  /\ runDir = <<>>
  /\ pc = "idle"
  /\ idx = 0
  /\ manifest = NoManifest
  /\ failures = <<>>
  /\ evidenceLinks = <<>>
  /\ fs = NoFs
  /\ trace = <<>>
  /\ result = NoResult
  /\ disk = NoFs
  /\ now = 0
  /\ db = EmptyDb
  /\ ingestLog = <<>>
  /\ deriveOut = NotDerived
  /\ replies = <<>>
  /\ breaker = NoBreaker
  /\ callers = <<>>
  /\ retry = NoRetry
  /\ hist = <<>>

Normalize ==
  /\ \E k \in 1..2 :
       /\ ~normOut[k].called
       /\ normOut' = [normOut EXCEPT ![k] =
            [called |-> TRUE,
             receipt |-> normalizeReceipt(normIn[k].manifest, normIn[k].manifestSha256)]]
  /\ UNCHANGED normIn
  /\ UNCHANGED <<pathVars, verifyVars, ingestVars, serviceVars>>

NormalizeNext == Normalize

SpecNormalize == NormalizeInit /\ [][NormalizeNext]_vars

(***************************************************************************)
(* Two calls of normalizeReceipt on manifests that differ in the order of  *)
(* their artifacts; two artifacts may carry the same path.                 *)
(***************************************************************************)
ArtifactsIn ==
  {ArtifactEntry(<<"a">>, sha256Hex(Blob(1)), 1),
   ArtifactEntry(<<"a">>, sha256Hex(Blob(2)), 2),
   ArtifactEntry(<<"B">>, sha256Hex(Blob(1)), 1)}

ArtifactManifests ==
  {[keys |-> ManifestKeys,
    fields |-> ManifestFields("0.1.0", "i1", "r1", "j1", "2025-01-15T12:00:00Z",
                              artifacts, "SUCCESS")] :
     artifacts \in SeqsUpTo(ArtifactsIn, MaxDelivered)}

DeliveredInit ==
  /\ normIn \in [1..2 -> [manifest : {obj \in ArtifactManifests : SolverReceiptV0Schema(obj)},
                          manifestSha256 : {sha256Hex(Blob(1))}]]
  /\ normOut = [k \in 1..2 |-> NotCalled]
  /\ pathIn = <<>>
  /\ baseIn = <<>>
  /\ pathOut = NoPathOut
  /\ receipt = IdleReceipt
  /\ runDir = <<>>
  /\ pc = "idle"
  /\ idx = 0
  /\ manifest = NoManifest
  /\ failures = <<>>
  /\ evidenceLinks = <<>>
  /\ fs = NoFs
  /\ trace = <<>>
  /\ result = NoResult
  /\ disk = NoFs
  /\ now = 0
  /\ db = EmptyDb
  /\ ingestLog = <<>>
  /\ deriveOut = NotDerived
  /\ replies = <<>>
  /\ breaker = NoBreaker
  /\ callers = <<>>
  /\ retry = NoRetry
  /\ hist = <<>>

SpecDelivered == DeliveredInit /\ [][NormalizeNext]_vars

(***************************************************************************)
(* verifyEvidence as one call on the files of a disk.                      *)
(***************************************************************************)
FileAt(files, path) == IF path \in DOMAIN files THEN files[path] ELSE MissingFile

RECURSIVE VerifyArtifactsFrom(_, _, _, _, _, _)
VerifyArtifactsFrom(list, i, dir, files, fl, links) ==
  IF i > Len(list) THEN buildResult(fl, links)
  ELSE LET out == ArtifactChecks(list[i], i, dir,
                                 FileAt(files, safeJoin(dir, list[i].path)),
                                 DEFAULT_MAX_ARTIFACT_BYTES)
       IN VerifyArtifactsFrom(list, NextArtifact(i, Len(list), out), dir, files,
                              fl \o out.failures, links \o out.links)

verifyEvidence(rcpt, dir, files) ==
  LET out == ManifestChecks(rcpt, dir, FileAt(files, safeJoin(dir, rcpt.manifestPath)),
                            DEFAULT_MAX_MANIFEST_BYTES)
  IN IF out.returned THEN buildResult(out.failures, EvidenceBase(rcpt))
     ELSE VerifyArtifactsFrom(ArtifactsToCheck(rcpt, out.manifest), 1, dir, files,
                              out.failures \o DeliveredMismatch(out.manifest, rcpt),
                              EvidenceBase(rcpt))

(***************************************************************************)
(* sortEvidence and sortSignals (utils/sort): evidence by (type, ref) and  *)
(* without duplicates, signals by signalId, then observedAt (stable).      *)
(***************************************************************************)
\* evidence types and signal ids, in code-unit order
EvidenceTypes == <<"artifactSha256", "failurePath", "manifestSha256", "parseError", "receiptId">>

SignalIds ==
  <<"BE_ARTIFACT_HASH_MISMATCH", "BE_ARTIFACT_MISSING", "BE_ARTIFACT_SIZE_MISMATCH",
    "BE_DELIVERED_MISMATCH", "BE_MANIFEST_HASH_MISMATCH", "BE_MANIFEST_NOT_FOUND",
    "BE_MANIFEST_PARSE_FAIL", "BE_MANIFEST_SCHEMA_INVALID", "BE_MANIFEST_TOO_LARGE",
    "BE_RECEIPT_SCHEMA_INVALID", "BE_UNSAFE_PATH", "BE_VERIFIED_OK">>

TypeRank(type) == CHOOSE i \in 1..Len(EvidenceTypes) : EvidenceTypes[i] = type
SignalRank(signalId) == CHOOSE i \in 1..Len(SignalIds) : SignalIds[i] = signalId

\* the order of two hex digests: fixed, here that of the numbers of the
\* contents they were computed from
DigestCompare(a, b) == Sign(a[2].id - b[2].id)

compareEvidence(a, b) ==
  IF a.type # b.type THEN Sign(TypeRank(a.type) - TypeRank(b.type))
  ELSE IF a.ref = b.ref THEN 0
  ELSE IF a.type = "failurePath" THEN codeUnitCompare(a.ref, b.ref)
  ELSE DigestCompare(a.ref, b.ref)

RECURSIVE InsertEvidence(_, _)
InsertEvidence(sorted, e) ==
  IF sorted = <<>> THEN <<e>>
  ELSE IF compareEvidence(e, Head(sorted)) = 0 THEN sorted
  ELSE IF compareEvidence(e, Head(sorted)) < 0 THEN <<e>> \o sorted
  ELSE <<Head(sorted)>> \o InsertEvidence(Tail(sorted), e)

RECURSIVE SortEvidenceFrom(_, _)
SortEvidenceFrom(list, acc) ==
  IF list = <<>> THEN acc
  ELSE SortEvidenceFrom(Tail(list), InsertEvidence(acc, Head(list)))

sortEvidence(list) == SortEvidenceFrom(list, <<>>)

compareSignals(a, b) ==
  IF a.signalId # b.signalId THEN Sign(SignalRank(a.signalId) - SignalRank(b.signalId))
  ELSE Sign(a.observedAt - b.observedAt)

RECURSIVE InsertSignal(_, _)
InsertSignal(sorted, sig) ==
  IF sorted = <<>> THEN <<sig>>
  ELSE IF compareSignals(sig, Head(sorted)) < 0 THEN <<sig>> \o sorted
  ELSE <<Head(sorted)>> \o InsertSignal(Tail(sorted), sig)

RECURSIVE SortSignalsFrom(_, _)
SortSignalsFrom(list, acc) ==
  IF list = <<>> THEN acc
  ELSE SortSignalsFrom(Tail(list), InsertSignal(acc, Head(list)))

sortSignals(list) == SortSignalsFrom(list, <<>>)

(***************************************************************************)
(* deriveBehaviorSignals.  A weight is kept as its decimal text.           *)
(***************************************************************************)
SignalDef(signalId, severity, weight, codes) ==
  [signalId |-> signalId, severity |-> severity, weight |-> weight, codes |-> codes]

SIGNAL_DEFS_SizeMismatchCritical ==
  <<SignalDef("BE_MANIFEST_NOT_FOUND", "CRITICAL", "1.0", <<"MANIFEST_NOT_FOUND">>),
    SignalDef("BE_MANIFEST_HASH_MISMATCH", "CRITICAL", "1.0", <<"MANIFEST_HASH_MISMATCH">>),
    SignalDef("BE_MANIFEST_PARSE_FAIL", "HIGH", "0.8",
              <<"MANIFEST_PARSE_FAIL", "MANIFEST_READ_ERROR">>),
    SignalDef("BE_MANIFEST_SCHEMA_INVALID", "HIGH", "0.8", <<"MANIFEST_SCHEMA_INVALID">>),
    SignalDef("BE_MANIFEST_TOO_LARGE", "HIGH", "0.8", <<"MANIFEST_TOO_LARGE">>),
    SignalDef("BE_ARTIFACT_MISSING", "CRITICAL", "1.0", <<"ARTIFACT_NOT_FOUND">>),
    SignalDef("BE_ARTIFACT_HASH_MISMATCH", "CRITICAL", "1.0", <<"ARTIFACT_HASH_MISMATCH">>),
    SignalDef("BE_ARTIFACT_SIZE_MISMATCH", "CRITICAL", "1.0", <<"ARTIFACT_SIZE_MISMATCH">>),
    SignalDef("BE_UNSAFE_PATH", "CRITICAL", "1.0", <<"UNSAFE_PATH">>),
    SignalDef("BE_DELIVERED_MISMATCH", "CRITICAL", "1.0", <<"DELIVERED_MISMATCH">>)>>

SIGNAL_DEFS ==
  <<SignalDef("BE_MANIFEST_NOT_FOUND", "CRITICAL", "1.0", <<"MANIFEST_NOT_FOUND">>),
    SignalDef("BE_MANIFEST_HASH_MISMATCH", "CRITICAL", "1.0", <<"MANIFEST_HASH_MISMATCH">>),
    SignalDef("BE_MANIFEST_PARSE_FAIL", "HIGH", "0.8",
              <<"MANIFEST_PARSE_FAIL", "MANIFEST_READ_ERROR">>),
    SignalDef("BE_MANIFEST_SCHEMA_INVALID", "HIGH", "0.8", <<"MANIFEST_SCHEMA_INVALID">>),
    SignalDef("BE_MANIFEST_TOO_LARGE", "HIGH", "0.8", <<"MANIFEST_TOO_LARGE">>),
    SignalDef("BE_ARTIFACT_MISSING", "CRITICAL", "1.0", <<"ARTIFACT_NOT_FOUND">>),
    SignalDef("BE_ARTIFACT_HASH_MISMATCH", "CRITICAL", "1.0", <<"ARTIFACT_HASH_MISMATCH">>),
    SignalDef("BE_ARTIFACT_SIZE_MISMATCH", "HIGH", "0.8", <<"ARTIFACT_SIZE_MISMATCH">>),
    SignalDef("BE_UNSAFE_PATH", "CRITICAL", "1.0", <<"UNSAFE_PATH">>),
    SignalDef("BE_DELIVERED_MISMATCH", "CRITICAL", "1.0", <<"DELIVERED_MISMATCH">>)>>

Signal(signalId, severity, weight, observedAt, evidence) ==
  [signalId |-> signalId, severity |-> severity, weight |-> weight,
   observedAt |-> observedAt, evidence |-> evidence]

\* def.codes.flatMap((code) => failuresByCode.get(code) ?? [])
RECURSIVE MatchingFailures(_, _)
MatchingFailures(codes, fl) ==
  IF codes = <<>> THEN <<>>
  ELSE SelectSeq(fl, LAMBDA f : f.code = Head(codes)) \o MatchingFailures(Tail(codes), fl)

FailureEvidence_FirstOnly(matching) ==
  LET withPath == SelectSeq(matching, LAMBDA f : f.path # Undefined /\ f.path # <<>>)
  IN IF withPath = <<>> THEN <<>>
     ELSE <<[type |-> "failurePath", ref |-> withPath[1].path]>>

\* .filter((f) => f.path).map((f) => ({ type: 'failurePath', ref: f.path }))
FailureEvidence(matching) ==
  LET withPath == SelectSeq(matching, LAMBDA f : f.path # Undefined /\ f.path # <<>>)
  IN [i \in 1..Len(withPath) |-> [type |-> "failurePath", ref |-> withPath[i].path]]

RECURSIVE DeriveFromDefs(_, _, _, _)
DeriveFromDefs(defs, fl, baseEvidence, observedAt) ==
  IF defs = <<>> THEN <<>>
  ELSE LET def == Head(defs)
           matchingFailures == MatchingFailures(def.codes, fl)
           rest == DeriveFromDefs(Tail(defs), fl, baseEvidence, observedAt)
       IN IF Len(matchingFailures) = 0 THEN rest
          ELSE <<Signal(def.signalId, def.severity, def.weight, observedAt,
                        sortEvidence(baseEvidence \o FailureEvidence(matchingFailures)))>>
               \o rest

deriveBehaviorSignals_BaseOnlyOk(res, rcpt, observedAt) ==
  LET baseEvidence == <<[type |-> "receiptId", ref |-> rcpt.receiptId],
                        [type |-> "manifestSha256", ref |-> rcpt.manifestSha256]>>
  IN IF res.ok
     THEN <<Signal("BE_VERIFIED_OK", "LOW", "0.1", observedAt, sortEvidence(baseEvidence))>>
     ELSE DeriveFromDefs(SIGNAL_DEFS, res.failures, baseEvidence, observedAt)

deriveBehaviorSignals_UnsortedOk(res, rcpt, observedAt) ==
  LET baseEvidence == <<[type |-> "receiptId", ref |-> rcpt.receiptId],
                        [type |-> "manifestSha256", ref |-> rcpt.manifestSha256]>>
  IN IF res.ok
     THEN <<Signal("BE_VERIFIED_OK", "LOW", "0.1", observedAt,
                   baseEvidence \o res.evidenceLinks)>>
     ELSE DeriveFromDefs(SIGNAL_DEFS, res.failures, baseEvidence, observedAt)

deriveBehaviorSignals_OkSignalAlways(res, rcpt, observedAt) ==
  LET baseEvidence == <<[type |-> "receiptId", ref |-> rcpt.receiptId],
                        [type |-> "manifestSha256", ref |-> rcpt.manifestSha256]>>
  IN <<Signal("BE_VERIFIED_OK", "LOW", "0.1", observedAt,
              sortEvidence(baseEvidence \o res.evidenceLinks))>>
     \o (IF res.ok THEN <<>>
         ELSE DeriveFromDefs(SIGNAL_DEFS, res.failures, baseEvidence, observedAt))

deriveBehaviorSignals(res, rcpt, observedAt) ==
  LET baseEvidence == <<[type |-> "receiptId", ref |-> rcpt.receiptId],
                        [type |-> "manifestSha256", ref |-> rcpt.manifestSha256]>>
  IN IF res.ok
     THEN <<Signal("BE_VERIFIED_OK", "LOW", "0.1", observedAt,
                   sortEvidence(baseEvidence \o res.evidenceLinks))>>
     ELSE DeriveFromDefs(SIGNAL_DEFS, res.failures, baseEvidence, observedAt)

(***************************************************************************)
(* verifyEvidence followed by deriveBehaviorSignals on what it returned.   *)
(***************************************************************************)
ObservedAts == 1..MaxClock

Derive ==
  /\ pc = "done"
  /\ ~deriveOut.called
  /\ \E observedAt \in ObservedAts :
       deriveOut' = [called |-> TRUE, observedAt |-> observedAt,
                     signals |-> deriveBehaviorSignals(result, receipt, observedAt)]
  /\ UNCHANGED <<receipt, runDir, pc, idx, manifest, failures, evidenceLinks, fs, trace, result>>
  /\ UNCHANGED <<pathVars, normVars, ingestVars, serviceVars>>

DeriveNext == VerifyManifest \/ VerifyArtifact \/ VerifyReturn \/ Derive

SpecDerive == VerifyInit /\ [][DeriveNext]_vars

(***************************************************************************)
(* Step 7 of verifyEvidence alone: delivered[] of a receipt against the    *)
(* artifacts of a schema-valid manifest, for paths that may hold a comma.  *)
(***************************************************************************)
MismatchPaths == {<<"a">>, <<"b">>, <<"a", ",", "b">>}

MismatchArtifacts == {DeclaredArtifact(path) : path \in MismatchPaths}

MismatchInit ==
  /\ manifest \in {ManifestFields("0.1.0", "i1", "r1", "j1", "2025-01-15T12:00:00Z",
                                  artifacts, "SUCCESS") :
                     artifacts \in SeqsUpTo(MismatchArtifacts, MaxDelivered)}
  /\ receipt \in {[IdleReceipt EXCEPT !.delivered = delivered] :
                    delivered \in SeqsUpTo(MismatchArtifacts, MaxDelivered)}
  /\ pc = "compare"
  /\ failures = <<>>
  /\ runDir = <<>>
  /\ idx = 0
  /\ evidenceLinks = <<>>
  /\ fs = NoFs
  /\ trace = <<>>
  /\ result = NoResult
  /\ deriveOut = NotDerived
  /\ replies = <<>>
  /\ breaker = NoBreaker
  /\ callers = <<>>
  /\ retry = NoRetry
  /\ hist = <<>>
  /\ pathIn = <<>>
  /\ baseIn = <<>>
  /\ pathOut = NoPathOut
  /\ normIn = <<>>
  /\ normOut = <<>>
  /\ disk = NoFs
  /\ now = 0
  /\ db = EmptyDb
  /\ ingestLog = <<>>

CompareDelivered ==
  /\ pc = "compare"
  /\ failures' = DeliveredMismatch(manifest, receipt)
  /\ pc' = "compared"
  /\ UNCHANGED <<receipt, runDir, idx, manifest, evidenceLinks, fs, trace, result, deriveOut>>
  /\ UNCHANGED <<pathVars, normVars, ingestVars, serviceVars>>

MismatchNext == CompareDelivered

SpecMismatch == MismatchInit /\ [][MismatchNext]_vars

(***************************************************************************)
(* The store and the scoring collaborator.  A table is the sequence of its *)
(* rows in insertion order; an insert of a row whose id is already there   *)
(* is ignored (INSERT OR IGNORE).  scoreAgent is opaque: score is what it  *)
(* decides, its risk and the number of new alerts.                         *)
(***************************************************************************)
HasRow(table, Id(_), id) == \E k \in 1..Len(table) : Id(table[k]) = id

AgentIdOf(row) == row.agentId
SnapshotIdOf(row) == row.snapshotId
ReportIdOf(row) == row.reportId
AlertIdOf(row) == row.alertId

upsertAgent(store, agent) ==
  IF HasRow(store.agents, AgentIdOf, agent.agentId) THEN store
  ELSE [store EXCEPT !.agents = Append(@, agent)]

insertSnapshot(store, snapshot) ==
  IF HasRow(store.snapshots, SnapshotIdOf, snapshot.snapshotId) THEN store
  ELSE [store EXCEPT !.snapshots = Append(@, snapshot)]

getLatestSnapshots(store, agentId) ==
  SelectSeq(store.snapshots, LAMBDA row : row.agentId = agentId)

insertRiskReport(store, report) ==
  IF HasRow(store.reports, ReportIdOf, report.reportId) THEN store
  ELSE [store EXCEPT !.reports = Append(@, report)]

RECURSIVE insertAlerts(_, _)
insertAlerts(store, alerts) ==
  IF alerts = <<>> THEN store
  ELSE insertAlerts(IF HasRow(store.alerts, AlertIdOf, Head(alerts).alertId) THEN store
                    ELSE [store EXCEPT !.alerts = Append(@, Head(alerts))],
                    Tail(alerts))

Scores == {[overallRisk |-> 0, alerts |-> 0], [overallRisk |-> 50, alerts |-> 1]}

scoreAgent(agent, snapshots, generatedAt, score) ==
  [report |-> [reportId |-> <<agent.agentId, generatedAt, Len(snapshots)>>,
               agentId |-> agent.agentId, generatedAt |-> generatedAt,
               overallRisk |-> score.overallRisk],
   newAlerts |-> [k \in 1..score.alerts |->
                    [alertId |-> <<agent.agentId, generatedAt, k>>,
                     agentId |-> agent.agentId]]]

(***************************************************************************)
(* The helpers of ingestReceipt.                                           *)
(***************************************************************************)
endsWith(s, suffix) ==
  /\ Len(suffix) <= Len(s)
  /\ SubSeq(s, Len(s) - Len(suffix) + 1, Len(s)) = suffix

\* node:path dirname of an absolute path without a trailing separator
dirname(path) ==
  LET last == CHOOSE i \in 0..Len(path) :
                /\ i = 0 \/ path[i] = "/"
                /\ \A j \in (i + 1)..Len(path) : path[j] # "/"
  IN IF last = 0 THEN <<".">>
     ELSE IF last = 1 THEN <<"/">>
     ELSE SubSeq(path, 1, last - 1)

\* 'evidence', shortened as in ManifestPath
EvidenceDir == <<"e">>

inferRunDir(absReceiptPath) ==
  LET dir == dirname(absReceiptPath)
      parent == dirname(dir)
  IN IF endsWith(dir, <<"/">> \o EvidenceDir) \/ endsWith(dir, <<"\\">> \o EvidenceDir)
     THEN parent
     ELSE dir

safeParseManifest(rawBytes) ==
  LET parsed == JSON_parse(rawBytes)
  IN IF ~parsed.ok
     THEN [success |-> FALSE, error |-> <<"Invalid JSON">>, data |-> NoManifest]
     ELSE LET schemaResult == safeParse(parsed.value)
          IN IF ~schemaResult.success
             THEN [success |-> FALSE, error |-> <<"schema issues">>, data |-> NoManifest]
             ELSE [success |-> TRUE, error |-> <<>>, data |-> schemaResult.data]

EvidenceJson(e) ==
  JsonObject(<<<<"type", JsonAtom(e.type)>>, <<"ref", JsonAtom(e.ref)>>>>)

SignalJson(sig) ==
  JsonObject(<<<<"signalId", JsonAtom(sig.signalId)>>,
               <<"severity", JsonAtom(sig.severity)>>,
               <<"weight", JsonAtom(sig.weight)>>,
               <<"observedAt", JsonAtom(sig.observedAt)>>,
               <<"evidence", JsonArray([i \in 1..Len(sig.evidence) |->
                                          EvidenceJson(sig.evidence[i])])>>>>)

\* the object literal { agentId, signals }
SnapshotIdInput(agentId, signals) ==
  JsonObject(<<<<"agentId", JsonAtom(agentId)>>,
               <<"signals", JsonArray([i \in 1..Len(signals) |-> SignalJson(signals[i])])>>>>)

PlaceholderReceiptId_NoManifestSha(manifestSha256) ==
  sha256Hex(canonicalJson(
    JsonObject(<<<<"intentId", JsonAtom("unknown")>>,
                 <<"runId", JsonAtom("unknown")>>,
                 <<"jobType", JsonAtom("unknown")>>>>)))

\* the receipt id of a manifest that does not parse
PlaceholderReceiptId(manifestSha256) ==
  sha256Hex(canonicalJson(
    ReceiptIdInput([intentId |-> "unknown", runId |-> "unknown", jobType |-> "unknown"],
                   manifestSha256)))

SchemaInvalidSignals(manifestSha256, error, observedAt) ==
  <<Signal("BE_RECEIPT_SCHEMA_INVALID", "HIGH", "0.8", observedAt,
           <<[type |-> "manifestSha256", ref |-> manifestSha256],
             [type |-> "parseError", ref |-> error]>>)>>

NoIngestResult ==
  [receiptId |-> sha256Hex(Garbage), snapshotId |-> sha256Hex(Garbage),
   reportId |-> <<>>, ok |-> FALSE, overallRisk |-> 0, alertCount |-> 0]

\* a call of ingestReceipt: its arguments, the clock reading it took as
\* observedAt, whether it threw, the size of the receipt file it loaded, the
\* functions it called in order, the run directory it handed to
\* verifyEvidence and what that returned, the signals it stored and what it
\* returned
IngestCall(agentId, receiptPath, runDirArg, observedAt, threw, loaded, calls, verifyDir, verified, signals, res) ==
  [agentId |-> agentId, receiptPath |-> receiptPath, runDir |-> runDirArg,
   observedAt |-> observedAt, threw |-> threw, loaded |-> loaded, calls |-> calls,
   verifyDir |-> verifyDir, verified |-> verified, signals |-> signals, result |-> res]

\* steps 2 to 6 and 7 to 12: the functions called when the manifest parses
\* and when it does not, and those of the store pipeline
VerifyCalls(success) ==
  IF success THEN <<"normalizeReceipt", "verifyEvidence", "deriveBehaviorSignals">>
  ELSE <<>>

StoreCalls_AlertsAlways(alertCount) ==
  <<"sortSignals", "upsertAgent", "insertSnapshot", "getLatestSnapshots", "scoreAgent",
    "insertRiskReport", "insertAlerts">>

StoreCalls(alertCount) ==
  <<"sortSignals", "upsertAgent", "insertSnapshot", "getLatestSnapshots", "scoreAgent",
    "insertRiskReport">>
  \o (IF alertCount > 0 THEN <<"insertAlerts">> ELSE <<>>)

StoreSnapshot_OnlyVerified(store, agentId, snapshotId, observedAt, signals) ==
  IF \E k \in 1..Len(signals) : signals[k].signalId = "BE_VERIFIED_OK"
  THEN insertSnapshot(upsertAgent(store, [agentId |-> agentId]),
                      [snapshotId |-> snapshotId, agentId |-> agentId,
                       observedAt |-> observedAt, signals |-> signals])
  ELSE upsertAgent(store, [agentId |-> agentId])

\* steps 9 and 10: upsertAgent, then insertSnapshot
StoreSnapshot(store, agentId, snapshotId, observedAt, signals) ==
  insertSnapshot(upsertAgent(store, [agentId |-> agentId]),
                 [snapshotId |-> snapshotId, agentId |-> agentId,
                  observedAt |-> observedAt, signals |-> signals])

(***************************************************************************)
(* Calls of ingestReceipt on a disk that does not change: a run directory  *)
(* /r with its manifest and one artifact.  Time passes between the calls   *)
(* and between the two clock readings of a call.                           *)
(***************************************************************************)
RunDirOnDisk == <<"/", "r">>
ReceiptPathOnDisk == RunDirOnDisk \o <<"/">> \o ManifestPath
ArtifactPathOnDisk == RunDirOnDisk \o <<"/", "a">>

ManifestsOnDisk ==
  {File(TRUE, TRUE, 1, FALSE, Garbage),
   File(TRUE, TRUE, DEFAULT_MAX_MANIFEST_BYTES + 1, TRUE, ManifestDoc("0.1.0", <<>>))}
  \cup {File(TRUE, TRUE, 1, TRUE, c) :
          c \in {Garbage, ManifestDoc("9.9.9", <<>>), ManifestDoc("0.1.0", <<>>),
                 ManifestDoc("0.1.0", <<DeclaredArtifact(<<"a">>)>>)}}

ArtifactsOnDisk ==
  {MissingFile, File(TRUE, TRUE, 1, TRUE, Blob(1)), File(TRUE, TRUE, 1, TRUE, Blob(2))}

\* the same run laid out with the filesystem root as its run directory
RootReceiptPath == <<"/">> \o ManifestPath
RootArtifactPath == <<"/", "a">>

DisksIn ==
  {[path \in {ReceiptPathOnDisk, ArtifactPathOnDisk} |->
      IF path = ReceiptPathOnDisk THEN m ELSE a] :
     m \in ManifestsOnDisk, a \in ArtifactsOnDisk}
  \cup {[path \in {RootReceiptPath, RootArtifactPath} |->
           IF path = RootReceiptPath
           THEN File(TRUE, TRUE, 1, TRUE, ManifestDoc("0.1.0", <<DeclaredArtifact(<<"a">>)>>))
           ELSE File(TRUE, TRUE, 1, TRUE, Blob(1))]}

AgentIds == {"agent-1"}
ReceiptPathsIn == {ReceiptPathOnDisk, RootReceiptPath}
RunDirArgs == {Undefined, <<"/", "w">>}

IngestInit ==
  /\ disk \in DisksIn
  /\ now = 1
  /\ db = EmptyDb
  /\ ingestLog = <<>>
  /\ deriveOut = NotDerived
  /\ replies = <<>>
  /\ breaker = NoBreaker
  /\ callers = <<>>
  /\ retry = NoRetry
  /\ hist = <<>>
  /\ normIn = <<>>
  /\ normOut = <<>>
  /\ pathIn = <<>>
  /\ baseIn = <<>>
  /\ pathOut = NoPathOut
  /\ receipt = IdleReceipt
  /\ runDir = <<>>
  /\ pc = "idle"
  /\ idx = 0
  /\ manifest = NoManifest
  /\ failures = <<>>
  /\ evidenceLinks = <<>>
  /\ fs = NoFs
  /\ trace = <<>>
  /\ result = NoResult

\* ingestReceipt(db, agentId, receiptPath, runDir?) on the files given:
\* observedAt is the clock at the call, generatedAt the clock at step 11,
\* score what scoreAgent decides
ingestReceipt(agentId, receiptPath, runDirArg, files, generatedAts, scores) ==
  \E generatedAt \in generatedAts, score \in scores :
       \E absReceiptPath \in {resolve(receiptPath)} :
       \E read \in {readFileSync(FileAt(files, absReceiptPath))} :
         IF read.threw
         THEN /\ ingestLog' = Append(ingestLog,
                   IngestCall(agentId, receiptPath, runDirArg, now, TRUE, 0, <<>>,
                              Undefined, NoResult, <<>>, NoIngestResult))
              /\ UNCHANGED <<now, db>>
         ELSE \E manifestSha256 \in {sha256Hex(read.bytes)} :
              \E parsed \in {safeParseManifest(read.bytes)} :
              \E rcpt \in {IF parsed.success
                           THEN normalizeReceipt([keys |-> ManifestKeys,
                                                  fields |-> parsed.data], manifestSha256)
                           ELSE NoReceipt} :
              \E effectiveRunDir \in {IF runDirArg = Undefined
                                      THEN inferRunDir(absReceiptPath)
                                      ELSE runDirArg} :
              \E res \in {IF parsed.success
                          THEN verifyEvidence(rcpt, effectiveRunDir, files)
                          ELSE NoResult} :
              \E derived \in {IF parsed.success
                              THEN deriveBehaviorSignals(res, rcpt, now)
                              ELSE SchemaInvalidSignals(manifestSha256, parsed.error, now)} :
              \E signals \in {sortSignals(derived)} :
              \E snapshotId \in {sha256Hex(canonicalJson(SnapshotIdInput(agentId, signals)))} :
              \E db2 \in {StoreSnapshot(db, agentId, snapshotId, now, signals)} :
              \E scored \in {scoreAgent([agentId |-> agentId],
                                        getLatestSnapshots(db2, agentId),
                                        generatedAt, score)} :
              \E db3 \in {insertRiskReport(db2, scored.report)} :
                /\ db' = IF Len(scored.newAlerts) > 0
                         THEN insertAlerts(db3, scored.newAlerts)
                         ELSE db3
                /\ now' = generatedAt
                /\ ingestLog' = Append(ingestLog,
                     IngestCall(agentId, receiptPath, runDirArg, now, FALSE,
                                FileAt(files, absReceiptPath).size,
                                VerifyCalls(parsed.success)
                                  \o StoreCalls(Len(scored.newAlerts)),
                                IF parsed.success THEN effectiveRunDir ELSE Undefined,
                                res,
                                signals,
                                [receiptId |-> IF parsed.success THEN rcpt.receiptId
                                               ELSE PlaceholderReceiptId(manifestSha256),
                                 snapshotId |-> snapshotId,
                                 reportId |-> scored.report.reportId,
                                 ok |-> IF parsed.success THEN res.ok ELSE FALSE,
                                 overallRisk |-> scored.report.overallRisk,
                                 alertCount |-> Len(scored.newAlerts)]))

\* one call of ingestReceipt on a disk that does not change
Ingest ==
  /\ Len(ingestLog) < MaxIngests
  /\ \E agentId \in AgentIds, receiptPath \in ReceiptPathsIn, runDirArg \in RunDirArgs :
       ingestReceipt(agentId, receiptPath, runDirArg, disk,
                     {t \in {now, now + 1} : t <= MaxClock}, Scores)
  /\ UNCHANGED disk
  /\ UNCHANGED <<pathVars, verifyVars, normVars, serviceVars>>

Tick ==
  /\ now < MaxClock
  /\ now' = now + 1
  /\ UNCHANGED <<disk, db, ingestLog>>
  /\ UNCHANGED <<pathVars, verifyVars, normVars, serviceVars>>

IngestNext == Ingest \/ Tick

SpecIngest == IngestInit /\ [][IngestNext]_vars

(***************************************************************************)
(* POST /v1/receipts/ingest: the manifest of the body is written to        *)
(* evidence/manifest.json in a fresh temporary directory, which            *)
(* ingestReceipt is given as run directory.                                *)
(***************************************************************************)
\* join(tmpdir(), 'wt-ingest-' + randomUUID())
TmpDir == <<"/", "t">>

Directory == File(TRUE, TRUE, 1, FALSE, Garbage)

WrittenTmpDir_WithArtifact(tmpDir, doc) ==
  [path \in {tmpDir, tmpDir \o <<"/">> \o EvidenceDir, tmpDir \o <<"/">> \o ManifestPath,
             tmpDir \o <<"/", "a">>} |->
     IF path = tmpDir \o <<"/">> \o ManifestPath
     THEN File(TRUE, TRUE, 1, TRUE, JsonBytes(doc))
     ELSE IF path = tmpDir \o <<"/", "a">> THEN File(TRUE, TRUE, 1, TRUE, Blob(1))
     ELSE Directory]

\* mkdirSync(evidenceDir, {recursive: true}); writeFileSync(manifestPath,
\* JSON.stringify(manifest)): the new directories and the one file in them
WrittenTmpDir(tmpDir, doc) ==
  [path \in {tmpDir, tmpDir \o <<"/">> \o EvidenceDir, tmpDir \o <<"/">> \o ManifestPath} |->
     IF path = tmpDir \o <<"/">> \o ManifestPath
     THEN File(TRUE, TRUE, 1, TRUE, JsonBytes(doc))
     ELSE Directory]

\* manifests of a request body: without artifacts, with an artifact that is
\* nowhere, with artifacts that name the manifest file and the directories
\* of the temporary directory, and one of an unsupported version
BodyArtifactPaths == {<<"a">>, ManifestPath, EvidenceDir, <<".">>}

BodyManifests ==
  {[keys |-> ManifestKeys,
    fields |-> ManifestFields(version, "i1", "r1", "j1", "2025-01-15T12:00:00Z",
                              artifacts, "SUCCESS")] :
     version \in {"0.1.0", "9.9.9"},
     artifacts \in {<<>>} \cup {<<DeclaredArtifact(path)>> : path \in BodyArtifactPaths}}

\* the body of a request; agentId "" and hasManifest FALSE are a missing field
BodiesIn ==
  {[agentId |-> agentId, hasManifest |-> hasManifest, manifest |-> doc] :
     agentId \in {"", "agent-1"}, hasManifest \in BOOLEAN, doc \in BodyManifests}

RouteInit ==
  /\ replies = <<>>
  /\ disk = NoFs
  /\ now = 1
  /\ db = EmptyDb
  /\ ingestLog = <<>>
  /\ deriveOut = NotDerived
  /\ breaker = NoBreaker
  /\ callers = <<>>
  /\ retry = NoRetry
  /\ hist = <<>>
  /\ normIn = <<>>
  /\ normOut = <<>>
  /\ pathIn = <<>>
  /\ baseIn = <<>>
  /\ pathOut = NoPathOut
  /\ receipt = IdleReceipt
  /\ runDir = <<>>
  /\ pc = "idle"
  /\ idx = 0
  /\ manifest = NoManifest
  /\ failures = <<>>
  /\ evidenceLinks = <<>>
  /\ fs = NoFs
  /\ trace = <<>>
  /\ result = NoResult

Reply(body, status, answer) == [request |-> body, status |-> status, body |-> answer]

\* the handler of POST /v1/receipts/ingest
PostIngest ==
  /\ Len(replies) < MaxIngests
  /\ \E body \in BodiesIn :
       IF body.agentId = "" \/ ~body.hasManifest
       THEN /\ replies' = Append(replies, Reply(body, 400, NoIngestResult))
            /\ UNCHANGED <<disk, now, db, ingestLog>>
       ELSE \E written \in {WrittenTmpDir(TmpDir, body.manifest)} :
              /\ disk' = written
              /\ ingestReceipt(body.agentId, TmpDir \o <<"/">> \o ManifestPath, TmpDir,
                               written, {now}, {[overallRisk |-> 0, alerts |-> 0]})
              /\ replies' = Append(replies,
                    IF ingestLog'[Len(ingestLog')].threw
                    THEN Reply(body, 422, NoIngestResult)
                    ELSE Reply(body, 200, ingestLog'[Len(ingestLog')].result))
  /\ UNCHANGED <<breaker, callers, retry, hist>>
  /\ UNCHANGED <<pathVars, verifyVars, normVars>>

RouteNext == PostIngest

SpecRoute == RouteInit /\ [][RouteNext]_vars

(***************************************************************************)
(* Schema validation on its own: safeParseManifest on documents that       *)
(* deviate from the schema in one or several places.                       *)
(***************************************************************************)
KeyListsIn ==
  {ManifestKeys, Append(ManifestKeys, "extra"),
   SelectSeq(ManifestKeys, LAMBDA key : key # "intentId")}

ArtifactListsIn ==
  {<<>>,
   <<DeclaredArtifact(<<"a">>)>>,
   <<ArtifactEntry(<<"a">>, <<"not-a-hash">>, 1)>>,
   <<ArtifactEntry(<<"a">>, sha256Hex(Blob(1)), -1)>>,
   <<DeclaredArtifact(<<"a">>), ArtifactEntry(<<"b">>, <<"not-a-hash">>, 1)>>}

SchemaDocsIn ==
  {[keys |-> keys,
    fields |-> [ManifestFields(version, "i1", "r1", "j1", "2025-01-15T12:00:00Z",
                               artifacts, status)
                  EXCEPT !.solver.service = service]] :
     keys \in KeyListsIn, version \in {"0.1.0", "9.9.9"}, artifacts \in ArtifactListsIn,
     status \in {"SUCCESS", "FAILED", "REFUSED", "DONE"},
     service \in {"irsb-solver", "other"}}

SchemaInit ==
  /\ normIn \in {<<[manifest |-> obj, manifestSha256 |-> sha256Hex(JsonBytes(obj))]>> :
                    obj \in SchemaDocsIn}
  /\ pc = "parse"
  /\ manifest = NoManifest
  /\ normOut = <<>>
  /\ pathIn = <<>>
  /\ baseIn = <<>>
  /\ pathOut = NoPathOut
  /\ receipt = IdleReceipt
  /\ runDir = <<>>
  /\ idx = 0
  /\ failures = <<>>
  /\ evidenceLinks = <<>>
  /\ fs = NoFs
  /\ trace = <<>>
  /\ result = NoResult
  /\ disk = NoFs
  /\ now = 1
  /\ db = EmptyDb
  /\ ingestLog = <<>>
  /\ deriveOut = NotDerived
  /\ replies = <<>>
  /\ breaker = NoBreaker
  /\ callers = <<>>
  /\ retry = NoRetry
  /\ hist = <<>>

\* const parsed = safeParseManifest(rawBytes)
ParseManifest ==
  /\ pc = "parse"
  /\ \E parsed \in {safeParseManifest(JsonBytes(normIn[1].manifest))} :
       /\ manifest' = parsed.data
       /\ pc' = IF parsed.success THEN "accepted" ELSE "rejected"
  /\ UNCHANGED <<receipt, runDir, idx, failures, evidenceLinks, fs, trace, result, deriveOut>>
  /\ UNCHANGED <<pathVars, normVars, ingestVars, serviceVars>>

SchemaNext == ParseManifest

SpecSchema == SchemaInit /\ [][SchemaNext]_vars

(***************************************************************************)
(* Step 4 of ingestReceipt on its own: the run directory handed to         *)
(* verifyEvidence, for receipt paths of up to MaxDepth segments.           *)
(***************************************************************************)
ReceiptSegments == {EvidenceDir, <<"m">>, <<"x">>, <<"x", "e">>, <<"x", "\\", "e">>}

ReceiptPathsOfDepth ==
  {<<"/">> \o join(segs, <<"/">>) : segs \in SeqsUpTo(ReceiptSegments, MaxDepth) \ {<<>>}}

InferInit ==
  /\ pathIn \in ReceiptPathsOfDepth
  /\ baseIn \in RunDirArgs
  /\ runDir = <<>>
  /\ pc = "infer"
  /\ pathOut = NoPathOut
  /\ receipt = IdleReceipt
  /\ idx = 0
  /\ manifest = NoManifest
  /\ failures = <<>>
  /\ evidenceLinks = <<>>
  /\ fs = NoFs
  /\ trace = <<>>
  /\ result = NoResult
  /\ normIn = <<>>
  /\ normOut = <<>>
  /\ disk = NoFs
  /\ now = 1
  /\ db = EmptyDb
  /\ ingestLog = <<>>
  /\ deriveOut = NotDerived
  /\ replies = <<>>
  /\ breaker = NoBreaker
  /\ callers = <<>>
  /\ retry = NoRetry
  /\ hist = <<>>

\* const effectiveRunDir = runDir ?? inferRunDir(absReceiptPath)
EffectiveRunDir ==
  /\ pc = "infer"
  /\ \E absReceiptPath \in {resolve(pathIn)} :
       runDir' = IF baseIn = Undefined THEN inferRunDir(absReceiptPath) ELSE baseIn
  /\ pc' = "inferred"
  /\ UNCHANGED <<pathIn, baseIn, pathOut, receipt, idx, manifest, failures, evidenceLinks,
                 fs, trace, result, deriveOut>>
  /\ UNCHANGED <<normVars, ingestVars, serviceVars>>

InferNext == EffectiveRunDir

SpecInfer == InferInit /\ [][InferNext]_vars

(***************************************************************************)
(* Properties of verifyEvidence (SpecVerify).                              *)
(***************************************************************************)
NonEmptySegments(path) == SelectSeq(Segments(path), LAMBDA seg : seg # <<>>)

\* path is base itself or lies under it, segment by segment
Inside(path, base) ==
  LET ps == NonEmptySegments(path)
      bs == NonEmptySegments(base)
  IN /\ isAbsolute(path)
     /\ DotDot \notin Range(ps)
     /\ Len(bs) <= Len(ps)
     /\ SubSeq(ps, 1, Len(bs)) = bs

PassesGuards(dir, relPath) ==
  validateRelativePath(relPath).valid /\ safeJoin(dir, relPath) # Null

FsCallsOf(i) == {k \in 1..Len(trace) : trace[k].op \in FsOps /\ trace[k].idx = i}

Examined == {k \in 1..Len(trace) : trace[k].op = "artifact"}

HasFailure(list, code, path) ==
  \E k \in 1..Len(list) : list[k].code = code /\ list[k].path = path

\* C2: every exists/stat/read of verifyEvidence is given resolve(runDir) or a
\* path under it; a manifest or artifact path that fails validateRelativePath
\* or safeJoin gets an UNSAFE_PATH failure and no filesystem call at all.
C2_AccessesStayUnderRunDir ==
  /\ \A k \in 1..Len(trace) :
       trace[k].op \in FsOps => Inside(trace[k].path, resolve(runDir))
  /\ \A k \in Examined :
       ~PassesGuards(runDir, trace[k].path) =>
         /\ FsCallsOf(trace[k].idx) = {}
         /\ HasFailure(failures, "UNSAFE_PATH", trace[k].path)
  /\ (pc = "done" /\ ~PassesGuards(runDir, receipt.manifestPath)) =>
         /\ trace = <<>>
         /\ HasFailure(result.failures, "UNSAFE_PATH", receipt.manifestPath)

C2_Witness ==
  /\ pc = "done"
  /\ \E k \in Examined : ~PassesGuards(runDir, trace[k].path)
  /\ \E k \in 1..Len(trace) : trace[k].op = "read" /\ trace[k].idx > 0

\* C4: verifyEvidence never throws, whatever the filesystem holds, and the
\* failures it returns carry only the twelve enumerated codes.
C4_NeverThrows ==
  /\ pc # "thrown"
  /\ pc = "done" =>
       \A k \in 1..Len(result.failures) : result.failures[k].code \in Range(FailureCodes)

C4_Witness ==
  /\ pc = "done"
  /\ \E k \in 1..Len(result.failures) : result.failures[k].message = "Cannot stat artifact"
  /\ \E k \in 1..Len(result.failures) : result.failures[k].message = "Cannot read artifact"

ManifestLevelCodes ==
  {"MANIFEST_NOT_FOUND", "MANIFEST_TOO_LARGE", "MANIFEST_READ_ERROR",
   "MANIFEST_HASH_MISMATCH", "MANIFEST_PARSE_FAIL", "MANIFEST_SCHEMA_INVALID"}

IsManifestLevel(f) ==
  \/ f.code \in ManifestLevelCodes
  \/ /\ f.code = "UNSAFE_PATH"
     /\ f.message \in {"Manifest path unsafe", "Manifest path escapes run directory"}

\* C5: a manifest-level failure is the only failure of its result, no artifact
\* has been examined, and the evidence links are the two base links.
C5_ManifestFailureShortCircuits ==
  (pc = "done" /\ \E k \in 1..Len(result.failures) : IsManifestLevel(result.failures[k])) =>
     /\ Len(result.failures) = 1
     /\ \A k \in 1..Len(trace) : trace[k].idx = 0
     /\ result.evidenceLinks = EvidenceBase(receipt)

C5_Witness ==
  /\ pc = "done"
  /\ Len(result.failures) = 1
  /\ result.failures[1].code = "MANIFEST_SCHEMA_INVALID"
  /\ Len(receipt.delivered) = 2

\* what the manifest checks must report for the file found at the manifest path
ExpectedManifestCode(rcpt, dir, file) ==
  IF ~validateRelativePath(rcpt.manifestPath).valid THEN "UNSAFE_PATH"
  ELSE IF safeJoin(dir, rcpt.manifestPath) = Null THEN "UNSAFE_PATH"
  ELSE IF ~file.exists THEN "MANIFEST_NOT_FOUND"
  ELSE IF ~file.statOk THEN "MANIFEST_READ_ERROR"
  ELSE IF file.size > DEFAULT_MAX_MANIFEST_BYTES THEN "MANIFEST_TOO_LARGE"
  ELSE IF ~file.readOk THEN "MANIFEST_READ_ERROR"
  ELSE IF sha256Hex(file.content) # rcpt.manifestSha256 THEN "MANIFEST_HASH_MISMATCH"
  ELSE IF file.content.kind # "json" THEN "MANIFEST_PARSE_FAIL"
  ELSE IF ~SolverReceiptV0Schema(file.content.obj) THEN "MANIFEST_SCHEMA_INVALID"
  ELSE "none"

ManifestFileSeen ==
  LET abs == safeJoin(runDir, receipt.manifestPath)
  IN IF abs \in DOMAIN fs THEN fs[abs] ELSE MissingFile

ManifestCallOrder == <<"exists", "stat", "read", "hash", "parse", "schema">>

ManifestCalls == SelectSeq(trace, LAMBDA e : e.idx = 0)

\* C6: the manifest checks run in the order path safety, containment,
\* existence, size, hash, parse, schema and the first failing check decides
\* the code; bytes that do not hash to receipt.manifestSha256 are reported as
\* MANIFEST_HASH_MISMATCH and are never parsed or schema-validated.
C6_FirstFailingManifestCheck ==
  pc \in {"artifacts", "done"} =>
    LET expected == ExpectedManifestCode(receipt, runDir, ManifestFileSeen)
        calls == ManifestCalls
    IN /\ \A k \in 1..Len(calls) : calls[k].op = ManifestCallOrder[k]
       /\ expected = "none" => idx >= 1
       /\ expected # "none" =>
            /\ pc = "done"
            /\ Len(result.failures) = 1
            /\ result.failures[1].code = expected
       /\ expected = "MANIFEST_HASH_MISMATCH" =>
            /\ Len(calls) = 4
            /\ \A k \in 1..Len(trace) : trace[k].op \notin {"parse", "schema", "artifact"}

C6_Witness ==
  /\ pc = "done"
  /\ Len(result.failures) = 1
  /\ result.failures[1].code = "MANIFEST_HASH_MISMATCH"
  /\ ManifestFileSeen.content = Garbage
  /\ ManifestFileSeen.readOk

ExaminedPaths == Paths(SelectSeq(trace, LAMBDA e : e.op = "artifact"))

\* C7: once the manifest checks pass, the artifacts examined are exactly the
\* entries of receipt.delivered, each once and in order, whatever failures the
\* earlier entries or the delivered/manifest comparison produced.
C7_EveryDeliveredArtifactExamined ==
  (pc = "done" /\ idx >= 1) => ExaminedPaths = Paths(receipt.delivered)

C7_Witness ==
  /\ pc = "done"
  /\ idx >= 1
  /\ Len(receipt.delivered) = 2
  /\ manifest.artifacts = <<>>
  /\ HasFailure(result.failures, "DELIVERED_MISMATCH", Undefined)
  /\ HasFailure(result.failures, "UNSAFE_PATH", receipt.delivered[1].path)
  /\ HasFailure(result.failures, "ARTIFACT_HASH_MISMATCH", receipt.delivered[2].path)

LexLeq(f, g) ==
  \/ CodeRank(f.code) < CodeRank(g.code)
  \/ /\ f.code = g.code
     /\ codeUnitCompare(PathOrEmpty(f), PathOrEmpty(g)) <= 0

\* C8: the failures of every returned result are non-decreasing in the
\* lexicographic order of (code, path or the empty string).
C8_FailuresSortedLexicographically ==
  pc = "done" =>
    \A k \in 1..(Len(result.failures) - 1) :
      LexLeq(result.failures[k], result.failures[k + 1])

\* C9: in every returned result, ok is true exactly if failures is empty.
C9_OkIffNoFailures ==
  pc = "done" => (result.ok <=> Len(result.failures) = 0)

C9_Witness ==
  /\ pc = "done"
  /\ result.ok
  /\ Len(receipt.delivered) = 2
  /\ Len(result.evidenceLinks) = 4

(***************************************************************************)
(* Properties of the path safety guard (SpecPath).                         *)
(***************************************************************************)
HasDotDotSegment(path) == DotDot \in Range(Segments(path))

\* the path leaves the directory it starts in: after cancelling "x/.." pairs
\* a ".." segment is left
LeavesStart(path) ==
  LET segs == NormalizeSegs(Segments(path), <<>>, TRUE)
  IN Len(segs) > 0 /\ segs[1] = DotDot

\* C3 (as stated): a path with a ".." segment, or an absolute one, is refused
\* by safeJoin or by validateRelativePath, and nothing both accept resolves
\* outside base.
C3_DotDotOrAbsoluteRefused ==
  pathOut.checked =>
    /\ (HasDotDotSegment(pathIn) \/ isAbsolute(pathIn)) =>
         (pathOut.joined = Null \/ ~pathOut.valid)
    /\ (pathOut.valid /\ pathOut.joined # Null) =>
         Inside(pathOut.joined, resolve(baseIn))

\* C3 (amended): a path that is absolute or leaves its starting directory is
\* refused by safeJoin or by validateRelativePath, and nothing both accept
\* resolves outside base.
C3_EscapingOrAbsoluteRefused ==
  pathOut.checked =>
    /\ (LeavesStart(pathIn) \/ isAbsolute(pathIn)) =>
         (pathOut.joined = Null \/ ~pathOut.valid)
    /\ (pathOut.valid /\ pathOut.joined # Null) =>
         Inside(pathOut.joined, resolve(baseIn))

C3_Witness ==
  /\ pathOut.checked
  /\ LeavesStart(pathIn)
  /\ pathOut.joined # Null
  /\ ~pathOut.valid

(***************************************************************************)
(* Properties of normalizeReceipt (SpecNormalize).                         *)
(***************************************************************************)
SameIdFields(a, b) ==
  /\ a.manifest.fields.intentId = b.manifest.fields.intentId
  /\ a.manifest.fields.runId = b.manifest.fields.runId
  /\ a.manifest.fields.jobType = b.manifest.fields.jobType
  /\ a.manifestSha256 = b.manifestSha256

\* C10: two calls of normalizeReceipt whose manifests agree on intentId, runId
\* and jobType and whose hash argument is the same return the same receiptId,
\* whatever the key order and the other fields of the manifests; and the
\* receiptId is the hash of the canonical text of those four values.
C10_ReceiptIdOfIdFieldsOnly ==
  \A i, j \in 1..2 :
    (normOut[i].called /\ normOut[j].called) =>
      /\ SameIdFields(normIn[i], normIn[j]) =>
           normOut[i].receipt.receiptId = normOut[j].receipt.receiptId
      /\ normOut[i].receipt.receiptId =
           sha256Hex(TextBytes(
             <<"{", <<<<"intentId", <<normIn[i].manifest.fields.intentId>>>>,
                      <<"jobType", <<normIn[i].manifest.fields.jobType>>>>,
                      <<"manifestSha256", <<normIn[i].manifestSha256>>>>,
                      <<"runId", <<normIn[i].manifest.fields.runId>>>>>>, "}">>))

C10_Witness ==
  /\ normOut[1].called
  /\ normOut[2].called
  /\ SameIdFields(normIn[1], normIn[2])
  /\ normIn[1].manifest.keys # normIn[2].manifest.keys
  /\ normIn[1].manifest.fields.artifacts # normIn[2].manifest.fields.artifacts
  /\ normIn[1].manifest.fields.createdAt # normIn[2].manifest.fields.createdAt
  /\ normIn[1].manifest.fields.executionSummary # normIn[2].manifest.fields.executionSummary
  /\ normIn[1].manifest.fields.solver # normIn[2].manifest.fields.solver
  /\ normOut[1].receipt.receiptId = normOut[2].receipt.receiptId

(***************************************************************************)
(* Properties of ingestReceipt (SpecIngest).                               *)
(***************************************************************************)
SameIngest(a, b) ==
  /\ ~a.threw
  /\ ~b.threw
  /\ a.agentId = b.agentId
  /\ a.receiptPath = b.receiptPath
  /\ a.runDir = b.runDir

\* C1: two calls of ingestReceipt for the same agent on the same files return
\* the same snapshotId, also when their observedAt differ.
C1_SnapshotIdIgnoresObservedAt ==
  \A i, j \in 1..Len(ingestLog) :
    SameIngest(ingestLog[i], ingestLog[j]) =>
      ingestLog[i].result.snapshotId = ingestLog[j].result.snapshotId

\* C1 (what the code does): the snapshotId of two such calls is the same
\* exactly if their observedAt is
C1_SnapshotIdFollowsObservedAt ==
  \A i, j \in 1..Len(ingestLog) :
    SameIngest(ingestLog[i], ingestLog[j]) =>
      (ingestLog[i].result.snapshotId = ingestLog[j].result.snapshotId
         <=> ingestLog[i].observedAt = ingestLog[j].observedAt)

C1_Witness ==
  /\ Len(ingestLog) = 2
  /\ SameIngest(ingestLog[1], ingestLog[2])
  /\ ingestLog[1].result.ok
  /\ ingestLog[1].observedAt # ingestLog[2].observedAt
  /\ ingestLog[1].result.snapshotId # ingestLog[2].result.snapshotId
  /\ Len(db.snapshots) = 2

(***************************************************************************)
(* Properties of the delivered list of normalizeReceipt (SpecDelivered).   *)
(***************************************************************************)
Count(list, x) == Cardinality({k \in 1..Len(list) : list[k] = x})

IsPermutation(a, b) ==
  /\ Len(a) = Len(b)
  /\ \A k \in 1..Len(a) : Count(a, a[k]) = Count(b, a[k])

SortedByPath(list) ==
  \A k \in 1..(Len(list) - 1) : localeCompare(list[k].path, list[k + 1].path) <= 0

\* C11: normalizeReceipt returns delivered sorted ascending by path, and two
\* manifests whose artifacts lists are permutations of each other get the
\* same delivered list, also when two artifacts share a path.
C11_DeliveredSameForEveryPermutation ==
  \A i, j \in 1..2 :
    (normOut[i].called /\ normOut[j].called) =>
      /\ SortedByPath(normOut[i].receipt.delivered)
      /\ IsPermutation(normIn[i].manifest.fields.artifacts,
                       normIn[j].manifest.fields.artifacts) =>
           normOut[i].receipt.delivered = normOut[j].receipt.delivered

C11_Witness ==
  /\ normOut[1].called
  /\ normOut[2].called
  /\ IsPermutation(normIn[1].manifest.fields.artifacts, normIn[2].manifest.fields.artifacts)
  /\ normIn[1].manifest.fields.artifacts # normIn[2].manifest.fields.artifacts
  /\ Paths(normIn[1].manifest.fields.artifacts) = <<<<"a">>, <<"a">>>>
  /\ normOut[1].receipt.delivered # normOut[2].receipt.delivered

(***************************************************************************)
(* Properties of deriveBehaviorSignals (SpecDerive).                       *)
(***************************************************************************)
SignalsWithId(sigs, signalId) == SelectSeq(sigs, LAMBDA sig : sig.signalId = signalId)

FailuresWithCode(fl, codes) == SelectSeq(fl, LAMBDA f : f.code \in codes)

FailurePathLinks(sig) == SelectSeq(sig.evidence, LAMBDA e : e.type = "failurePath")

HasBaseEvidence(sig, rcpt) ==
  /\ [type |-> "receiptId", ref |-> rcpt.receiptId] \in Range(sig.evidence)
  /\ [type |-> "manifestSha256", ref |-> rcpt.manifestSha256] \in Range(sig.evidence)

OneSignalPerId(sigs) ==
  \A k \in 1..Len(sigs) : Len(SignalsWithId(sigs, sigs[k].signalId)) = 1

ParseAndReadCollapse(sigs, fl) ==
  FailuresWithCode(fl, {"MANIFEST_PARSE_FAIL", "MANIFEST_READ_ERROR"}) # <<>> =>
    /\ Len(SignalsWithId(sigs, "BE_MANIFEST_PARSE_FAIL")) = 1
    /\ Len(sigs) = 1

C13_OkGivesVerifiedOk ==
  (deriveOut.called /\ result.ok) =>
    /\ Len(deriveOut.signals) = 1
    /\ deriveOut.signals[1].signalId = "BE_VERIFIED_OK"
    /\ deriveOut.signals[1].severity = "LOW"
    /\ deriveOut.signals[1].weight = "0.1"
    /\ deriveOut.signals[1].observedAt = deriveOut.observedAt
    /\ Range(deriveOut.signals[1].evidence) =
         Range(EvidenceBase(receipt)) \cup Range(result.evidenceLinks)
    /\ \A k \in 1..(Len(deriveOut.signals[1].evidence) - 1) :
         compareEvidence(deriveOut.signals[1].evidence[k],
                         deriveOut.signals[1].evidence[k + 1]) <= 0

C13_Witness ==
  /\ deriveOut.called
  /\ result.ok
  /\ Len(receipt.delivered) = 1
  /\ deriveOut.observedAt = 2
  /\ \E k \in 1..Len(deriveOut.signals[1].evidence) :
       deriveOut.signals[1].evidence[k].type = "artifactSha256"

\* the signal-definition table of the specification: signalId, triggering
\* codes, severity, weight
SignalTable ==
  {<<"BE_MANIFEST_NOT_FOUND", {"MANIFEST_NOT_FOUND"}, "CRITICAL", "1.0">>,
   <<"BE_MANIFEST_HASH_MISMATCH", {"MANIFEST_HASH_MISMATCH"}, "CRITICAL", "1.0">>,
   <<"BE_MANIFEST_PARSE_FAIL", {"MANIFEST_PARSE_FAIL", "MANIFEST_READ_ERROR"}, "HIGH", "0.8">>,
   <<"BE_MANIFEST_SCHEMA_INVALID", {"MANIFEST_SCHEMA_INVALID"}, "HIGH", "0.8">>,
   <<"BE_MANIFEST_TOO_LARGE", {"MANIFEST_TOO_LARGE"}, "HIGH", "0.8">>,
   <<"BE_ARTIFACT_MISSING", {"ARTIFACT_NOT_FOUND"}, "CRITICAL", "1.0">>,
   <<"BE_ARTIFACT_HASH_MISMATCH", {"ARTIFACT_HASH_MISMATCH"}, "CRITICAL", "1.0">>,
   <<"BE_ARTIFACT_SIZE_MISMATCH", {"ARTIFACT_SIZE_MISMATCH"}, "HIGH", "0.8">>,
   <<"BE_UNSAFE_PATH", {"UNSAFE_PATH"}, "CRITICAL", "1.0">>,
   <<"BE_DELIVERED_MISMATCH", {"DELIVERED_MISMATCH"}, "CRITICAL", "1.0">>}

\* C14: for a failed result a signal of the table is emitted exactly if some
\* failure carries one of its codes, with the severity and weight of its row,
\* and every emitted signal is one of the table.
C14_SignalsFollowTheTable ==
  (deriveOut.called /\ ~result.ok) =>
    /\ \A row \in SignalTable :
         LET sigs == SignalsWithId(deriveOut.signals, row[1])
         IN /\ (sigs # <<>>) <=> (FailuresWithCode(result.failures, row[2]) # <<>>)
            /\ \A k \in 1..Len(sigs) : sigs[k].severity = row[3] /\ sigs[k].weight = row[4]
    /\ \A k \in 1..Len(deriveOut.signals) :
         \E row \in SignalTable : row[1] = deriveOut.signals[k].signalId

C14_Witness ==
  /\ deriveOut.called
  /\ SignalsWithId(deriveOut.signals, "BE_ARTIFACT_SIZE_MISMATCH") # <<>>
  /\ SignalsWithId(deriveOut.signals, "BE_DELIVERED_MISMATCH") # <<>>
  /\ SignalsWithId(deriveOut.signals, "BE_ARTIFACT_HASH_MISMATCH") # <<>>

ReceiptFileOf(call) == FileAt(disk, resolve(call.receiptPath))

Parses(file) == safeParseManifest(file.content).success

Called(call, name) == Cardinality({k \in 1..Len(call.calls) : call.calls[k] = name})

RowsOf(table, Id(_), id) == SelectSeq(table, LAMBDA row : Id(row) = id)

\* the pipeline of steps 9 to 12 ran once and its rows are in the store
StorePipelineRan(call) ==
  /\ Called(call, "upsertAgent") = 1
  /\ Called(call, "insertSnapshot") = 1
  /\ Called(call, "scoreAgent") = 1
  /\ Called(call, "insertRiskReport") = 1
  /\ Len(RowsOf(db.agents, AgentIdOf, call.agentId)) = 1
  /\ Len(RowsOf(db.snapshots, SnapshotIdOf, call.result.snapshotId)) = 1
  /\ Len(RowsOf(db.reports, ReportIdOf, call.result.reportId)) = 1

\* C16: a receipt file that is not JSON or not schema-valid gives exactly the
\* signal BE_RECEIPT_SCHEMA_INVALID (HIGH, 0.8), ok = false and the placeholder
\* receiptId of the three "unknown" fields and manifestSha256; normalizeReceipt
\* and verifyEvidence are not called and the store pipeline still runs.
C16_SchemaInvalidReceiptIsStored ==
  \A i \in 1..Len(ingestLog) :
    LET call == ingestLog[i]
    IN (~call.threw /\ ~Parses(ReceiptFileOf(call))) =>
         /\ Len(call.signals) = 1
         /\ call.signals[1].signalId = "BE_RECEIPT_SCHEMA_INVALID"
         /\ call.signals[1].severity = "HIGH"
         /\ call.signals[1].weight = "0.8"
         /\ ~call.result.ok
         /\ call.result.receiptId =
              sha256Hex(TextBytes(
                <<"{", <<<<"intentId", <<"unknown">>>>,
                         <<"jobType", <<"unknown">>>>,
                         <<"manifestSha256", <<sha256Hex(ReceiptFileOf(call).content)>>>>,
                         <<"runId", <<"unknown">>>>>>, "}">>))
         /\ Called(call, "normalizeReceipt") = 0
         /\ Called(call, "verifyEvidence") = 0
         /\ StorePipelineRan(call)

C16_Witness ==
  /\ Len(ingestLog) = 1
  /\ ~ingestLog[1].threw
  /\ ReceiptFileOf(ingestLog[1]).content = ManifestDoc("9.9.9", <<>>)
  /\ ingestLog[1].signals[1].signalId = "BE_RECEIPT_SCHEMA_INVALID"
  /\ Len(db.snapshots) = 1

\* C17: a call of ingestReceipt on a receipt file that can be read does not
\* throw, and every call that returns has upserted the agent, inserted its
\* snapshot with the signals it derived, scored and inserted its report,
\* whether verification passed or failed or the manifest did not parse.
C17_ReadableReceiptCompletesThePipeline ==
  \A i \in 1..Len(ingestLog) :
    LET call == ingestLog[i]
    IN /\ ReceiptFileOf(call).readOk => ~call.threw
       /\ ~call.threw =>
            /\ StorePipelineRan(call)
            /\ RowsOf(db.snapshots, SnapshotIdOf, call.result.snapshotId)[1].signals
                 = call.signals
            /\ RowsOf(db.snapshots, SnapshotIdOf, call.result.snapshotId)[1].agentId
                 = call.agentId

C17_Witness ==
  /\ Len(ingestLog) = 2
  /\ ingestLog[1].result.ok
  /\ ~ingestLog[2].threw
  /\ ~ingestLog[2].result.ok
  /\ Called(ingestLog[2], "verifyEvidence") = 1
  /\ Len(db.snapshots) = 2
  /\ Len(db.reports) = 2

\* C18: a call of ingestReceipt on a receipt file that cannot be read throws,
\* having called none of the store and leaving it as it was; and a call
\* throws for no other reason.
C18_UnreadableReceiptThrowsBeforeTheStore ==
  [][Len(ingestLog') > Len(ingestLog) =>
       LET call == ingestLog'[Len(ingestLog')]
       IN /\ ~ReceiptFileOf(call).readOk =>
               (call.threw /\ call.calls = <<>> /\ db' = db)
          /\ call.threw => ~ReceiptFileOf(call).readOk]_vars

C18_Witness ==
  /\ Len(ingestLog) = 2
  /\ ~ingestLog[1].threw
  /\ ingestLog[2].threw
  /\ ~ReceiptFileOf(ingestLog[2]).exists
  /\ Len(db.agents) = 1
  /\ Len(db.snapshots) = 1

\* C20: no call of ingestReceipt loads a receipt file larger than
\* maxManifestBytes.
C20_ReceiptReadIsBounded ==
  \A i \in 1..Len(ingestLog) :
    ~ingestLog[i].threw => ingestLog[i].loaded <= DEFAULT_MAX_MANIFEST_BYTES

C20_Witness ==
  /\ Len(ingestLog) = 1
  /\ ~ingestLog[1].threw
  /\ ingestLog[1].loaded > DEFAULT_MAX_MANIFEST_BYTES
  /\ \E k \in 1..Len(ingestLog[1].signals) :
       ingestLog[1].signals[k].signalId = "BE_MANIFEST_TOO_LARGE"

(***************************************************************************)
(* Size limits of verifyEvidence (SpecVerify).                             *)
(***************************************************************************)
\* the limit of the file a call is about: the manifest (0) or an artifact
LimitOf(i) == IF i = 0 THEN DEFAULT_MAX_MANIFEST_BYTES ELSE DEFAULT_MAX_ARTIFACT_BYTES

TooLargeReported(i) ==
  IF i = 0 THEN HasFailure(failures, "MANIFEST_TOO_LARGE", receipt.manifestPath)
  ELSE HasFailure(failures, "ARTIFACT_TOO_LARGE", receipt.delivered[i].path)

ReadsOf(i) == {k \in 1..Len(trace) : trace[k].op = "read" /\ trace[k].idx = i}

\* C19: every read of verifyEvidence comes after a stat of the same file that
\* reported a size of at most the limit; a file larger than its limit is
\* reported TOO_LARGE and never read, one of exactly the limit is read.
C19_ReadsFollowASizeCheck ==
  /\ \A k \in 1..Len(trace) :
       trace[k].op = "read" =>
         \E j \in 1..(k - 1) :
           /\ trace[j].op = "stat"
           /\ trace[j].idx = trace[k].idx
           /\ trace[j].path = trace[k].path
           /\ fs[trace[j].path].statOk
           /\ fs[trace[j].path].size <= LimitOf(trace[j].idx)
  /\ \A j \in 1..Len(trace) :
       (trace[j].op = "stat" /\ fs[trace[j].path].statOk) =>
         IF fs[trace[j].path].size > LimitOf(trace[j].idx)
         THEN ReadsOf(trace[j].idx) = {} /\ TooLargeReported(trace[j].idx)
         ELSE \E k \in ReadsOf(trace[j].idx) : k > j /\ trace[k].path = trace[j].path

C19_Witness ==
  /\ pc = "done"
  /\ Len(receipt.delivered) = 2
  /\ ReadsOf(0) # {}
  /\ \E k \in ReadsOf(1) : fs[trace[k].path].size = DEFAULT_MAX_ARTIFACT_BYTES
  /\ ReadsOf(2) = {}
  /\ HasFailure(result.failures, "ARTIFACT_TOO_LARGE", receipt.delivered[2].path)

(***************************************************************************)
(* Properties of the delivered[] comparison (SpecMismatch).                *)
(***************************************************************************)
SortedPathLists(data, rcpt) ==
  <<Paths(sortByPath(data.artifacts)), Paths(sortByPath(rcpt.delivered))>>

\* C21: DELIVERED_MISMATCH, without a path, is emitted exactly if the sorted
\* list of the manifest's artifact paths differs from the sorted list of the
\* paths of receipt.delivered, also for paths that hold a comma.
C21_MismatchIffSortedPathListsDiffer ==
  pc = "compared" =>
    (HasFailure(failures, "DELIVERED_MISMATCH", Undefined)
       <=> SortedPathLists(manifest, receipt)[1] # SortedPathLists(manifest, receipt)[2])

C21_Witness ==
  /\ pc = "compared"
  /\ Paths(manifest.artifacts) = <<<<"a", ",", "b">>>>
  /\ Paths(receipt.delivered) = <<<<"a">>, <<"b">>>>
  /\ failures = <<>>

(***************************************************************************)
(* Properties of the checks of one artifact (SpecVerify).                  *)
(***************************************************************************)
\* the file the checks of delivered[i] looked at
ArtifactFileOf(i) == fs[safeJoin(runDir, receipt.delivered[i].path)]

\* delivered[i] passed the path guards and its file exists, stats and is
\* within the limit
Sizeable(i) ==
  /\ PassesGuards(runDir, receipt.delivered[i].path)
  /\ ArtifactFileOf(i).exists
  /\ ArtifactFileOf(i).statOk
  /\ ArtifactFileOf(i).size <= DEFAULT_MAX_ARTIFACT_BYTES

Hashed(i) == \E k \in 1..Len(trace) : trace[k].op = "hash" /\ trace[k].idx = i

ExaminedIdx == {trace[k].idx : k \in Examined}

\* C22: for an examined artifact that exists and is within the limit, a size
\* mismatch is reported exactly when the stat size differs from the declared
\* bytes, and it does not stop the read: if the file can be read, a hash
\* mismatch is reported exactly when the hash of its bytes differs from the
\* declared sha256, whatever the size check said.
C22_SizeMismatchDoesNotSkipTheHash ==
  \A i \in ExaminedIdx :
    Sizeable(i) =>
      /\ HasFailure(failures, "ARTIFACT_SIZE_MISMATCH", receipt.delivered[i].path)
           <=> ArtifactFileOf(i).size # receipt.delivered[i].bytes
      /\ ReadsOf(i) # {}
      /\ ArtifactFileOf(i).readOk =>
           /\ Hashed(i)
           /\ HasFailure(failures, "ARTIFACT_HASH_MISMATCH", receipt.delivered[i].path)
                <=> sha256Hex(ArtifactFileOf(i).content) # receipt.delivered[i].sha256

C22_Witness ==
  /\ pc = "done"
  /\ Len(receipt.delivered) = 2
  /\ receipt.delivered[1].path # receipt.delivered[2].path
  /\ HasFailure(result.failures, "ARTIFACT_SIZE_MISMATCH", receipt.delivered[1].path)
  /\ HasFailure(result.failures, "ARTIFACT_HASH_MISMATCH", receipt.delivered[1].path)
  /\ HasFailure(result.failures, "ARTIFACT_SIZE_MISMATCH", receipt.delivered[2].path)
  /\ ~HasFailure(result.failures, "ARTIFACT_HASH_MISMATCH", receipt.delivered[2].path)
  /\ Hashed(2)

HashedIdxs == SelectSeq([i \in 1..Len(receipt.delivered) |-> i], Hashed)

ArtifactLinks ==
  [k \in 1..Len(HashedIdxs) |->
     [type |-> "artifactSha256", ref |-> receipt.delivered[HashedIdxs[k]].sha256]]

NotHashedCodes == {"UNSAFE_PATH", "ARTIFACT_NOT_FOUND", "ARTIFACT_TOO_LARGE"}

\* C23: the evidence links of a result whose manifest checks passed are the
\* links pushed before the artifact loop followed by one artifactSha256 link,
\* carrying the declared sha256, for each delivered artifact that was read
\* and hashed, in delivered order, whether its hash matched or not; an
\* artifact reported UNSAFE_PATH, ARTIFACT_NOT_FOUND or ARTIFACT_TOO_LARGE is
\* not hashed and adds no link.
C23_OneLinkPerHashedArtifact ==
  (pc = "done" /\ idx >= 1) =>
    /\ \E base \in {SubSeq(evidenceLinks, 1, Len(evidenceLinks) - Len(ArtifactLinks))} :
         /\ evidenceLinks = base \o ArtifactLinks
         /\ \A k \in 1..Len(base) : base[k].type # "artifactSha256"
    /\ \A i \in 1..Len(receipt.delivered) :
         (\E code \in NotHashedCodes :
            HasFailure(failures, code, receipt.delivered[i].path)) <=> ~Hashed(i)

C23_Witness ==
  /\ pc = "done"
  /\ idx >= 1
  /\ Len(receipt.delivered) = 2
  /\ Hashed(1)
  /\ HasFailure(failures, "ARTIFACT_HASH_MISMATCH", receipt.delivered[1].path)
  /\ HasFailure(failures, "ARTIFACT_TOO_LARGE", receipt.delivered[2].path)
  /\ Len(ArtifactLinks) = 1
  /\ evidenceLinks[Len(evidenceLinks)] =
       [type |-> "artifactSha256", ref |-> receipt.delivered[1].sha256]

\* a stat or a read of the file of index i (0: the manifest) that threw
IoErrorAt(i) ==
  \E k \in 1..Len(trace) :
    /\ trace[k].idx = i
    /\ \/ trace[k].op = "stat" /\ ~fs[trace[k].path].statOk
       \/ trace[k].op = "read" /\ ~fs[trace[k].path].readOk

\* C24: a stat or read error is reported, never thrown: on the manifest as
\* MANIFEST_READ_ERROR, the only failure of a result returned at once with no
\* artifact examined; on an artifact as ARTIFACT_NOT_FOUND for its path,
\* without hashing it, and the loop goes on to the remaining artifacts.
C24_IoErrorsAreReported ==
  /\ pc # "thrown"
  /\ IoErrorAt(0) =>
       /\ pc = "done"
       /\ Len(result.failures) = 1
       /\ result.failures[1].code = "MANIFEST_READ_ERROR"
       /\ result.failures[1].path = receipt.manifestPath
       /\ Examined = {}
  /\ \A i \in 1..Len(receipt.delivered) :
       IoErrorAt(i) =>
         /\ HasFailure(failures, "ARTIFACT_NOT_FOUND", receipt.delivered[i].path)
         /\ ~Hashed(i)
         /\ pc = "done" => ExaminedIdx = 1..Len(receipt.delivered)

C24_Witness ==
  /\ pc = "done"
  /\ Len(receipt.delivered) = 2
  /\ IoErrorAt(1)
  /\ ~ArtifactFileOf(1).statOk
  /\ Hashed(2)
  /\ ~HasFailure(result.failures, "ARTIFACT_NOT_FOUND", receipt.delivered[2].path)

(***************************************************************************)
(* Properties of safeJoin (SpecPath).                                      *)
(***************************************************************************)
JoinBase == resolve(baseIn)
JoinTarget == resolve2(resolve(baseIn), pathIn)

\* the target continues the text of base with something other than "/"
SiblingOfBase ==
  /\ startsWith(JoinTarget, JoinBase)
  /\ Len(JoinTarget) > Len(JoinBase)
  /\ JoinTarget[Len(JoinBase) + 1] # "/"

\* C25: safeJoin returns the resolved path when it is the resolved base or
\* starts with the base followed by "/", and null otherwise; what it returns
\* lies under base segment by segment, everything that lies under a base
\* other than the root is returned, and a target that only continues the
\* text of base (base /a, target /aa) gives null.
C25_SafeJoinContainment ==
  pathOut.checked =>
    /\ pathOut.joined =
         IF JoinTarget = JoinBase \/ startsWith(JoinTarget, JoinBase \o <<"/">>)
         THEN JoinTarget ELSE Null
    /\ pathOut.joined # Null => Inside(pathOut.joined, JoinBase)
    /\ (JoinBase # <<"/">> /\ Inside(JoinTarget, JoinBase)) => pathOut.joined = JoinTarget
    /\ (SiblingOfBase /\ JoinBase # <<"/">>) =>
         (pathOut.joined = Null /\ ~Inside(JoinTarget, JoinBase))

C25_Witness ==
  /\ pathOut.checked
  /\ JoinBase = <<"/", "a">>
  /\ JoinTarget = <<"/", "a", "a">>
  /\ SiblingOfBase
  /\ pathOut.joined = Null

(***************************************************************************)
(* Properties of the inferred run directory (SpecInfer).                   *)
(***************************************************************************)
ReceiptSegs == NonEmptySegments(resolve(pathIn))

AtEvidenceManifest ==
  /\ Len(ReceiptSegs) >= 2
  /\ SubSeq(ReceiptSegs, Len(ReceiptSegs) - 1, Len(ReceiptSegs)) = <<EvidenceDir, <<"m">>>>

\* the path of the first n segments
PathOfSegs(n) == <<"/">> \o join(SubSeq(ReceiptSegs, 1, n), <<"/">>)

\* C26: without a runDir argument the run directory is the receipt path
\* without its last two segments when these are evidence/manifest.json, and
\* the directory containing the receipt file in every other case.
C26_InferredRunDir ==
  (pc = "inferred" /\ baseIn = Undefined) =>
    runDir = IF AtEvidenceManifest
             THEN PathOfSegs(Len(ReceiptSegs) - 2)
             ELSE PathOfSegs(Len(ReceiptSegs) - 1)

C26_Witness ==
  /\ pc = "inferred"
  /\ baseIn = Undefined
  /\ pathIn = <<"/", "x", "/", "e", "/", "x">>
  /\ runDir = <<"/", "x">>

(***************************************************************************)
(* Properties of schema validation (SpecSchema).                           *)
(***************************************************************************)
DocIn == normIn[1].manifest

\* the document has the fields of the schema and no other, and every field
\* the schema constrains has an admitted value
Conforms(obj) ==
  /\ Range(obj.keys) = Range(ManifestKeys)
  /\ obj.fields.manifestVersion = "0.1.0"
  /\ \A i \in 1..Len(obj.fields.artifacts) :
       /\ obj.fields.artifacts[i].sha256[1] = "sha256"
       /\ obj.fields.artifacts[i].bytes >= 0
  /\ obj.fields.executionSummary.status \in {"SUCCESS", "FAILED", "REFUSED"}
  /\ obj.fields.solver.service = "irsb-solver"

\* C27: a manifest is accepted exactly when it has the fields of the schema
\* and no other, with the supported manifestVersion, well-formed artifact
\* hashes, non-negative bytes, a status among SUCCESS, FAILED, REFUSED and
\* the expected solver.service; a rejected one yields no object at all.
C27_SchemaValidationIsTotal ==
  pc \in {"accepted", "rejected"} =>
    /\ pc = "accepted" <=> Conforms(DocIn)
    /\ pc = "rejected" => manifest = NoManifest

C27_Witness ==
  /\ pc = "accepted"
  /\ "extra" \in Range(DocIn.keys)
  /\ manifest = DocIn.fields

(***************************************************************************)
(* Coverage of the failure codes by the signals (SpecDerive).              *)
(***************************************************************************)
\* some signal of the list is one a failure of this code triggers
SignalledCode(signals, code) ==
  \E row \in SignalTable : code \in row[2] /\ SignalsWithId(signals, row[1]) # <<>>

\* C28: deriveBehaviorSignals returns at least one signal for every failed
\* result verifyEvidence returns, and every failure code of the result,
\* ARTIFACT_TOO_LARGE included, triggers one of the signals returned.
C28_EveryFailureIsSignalled ==
  (deriveOut.called /\ ~result.ok) =>
    /\ Len(deriveOut.signals) >= 1
    /\ \A k \in 1..Len(result.failures) :
         SignalledCode(deriveOut.signals, result.failures[k].code)

C28_Witness ==
  /\ deriveOut.called
  /\ ~result.ok
  /\ Len(result.failures) >= 1
  /\ \A k \in 1..Len(result.failures) : result.failures[k].code = "ARTIFACT_TOO_LARGE"
  /\ deriveOut.signals = <<>>

(***************************************************************************)
(* Properties of the signals and the verification of an ingest             *)
(* (SpecIngest).                                                           *)
(***************************************************************************)
VerificationOk(call) == Called(call, "verifyEvidence") = 1 /\ call.verified.ok

\* C29: the signals of an ingest contain BE_VERIFIED_OK exactly when the
\* verification ran and returned ok, BE_VERIFIED_OK is then the only signal,
\* and the ok of the IngestResult is true exactly then.
C29_VerifiedOkIffVerificationOk ==
  \A n \in 1..Len(ingestLog) :
    ~ingestLog[n].threw =>
      /\ SignalsWithId(ingestLog[n].signals, "BE_VERIFIED_OK") # <<>>
           <=> VerificationOk(ingestLog[n])
      /\ SignalsWithId(ingestLog[n].signals, "BE_VERIFIED_OK") # <<>>
           => Len(ingestLog[n].signals) = 1
      /\ ingestLog[n].result.ok <=> VerificationOk(ingestLog[n])

C29_Witness ==
  /\ Len(ingestLog) = 2
  /\ ingestLog[1].result.ok
  /\ ingestLog[1].signals[1].signalId = "BE_VERIFIED_OK"
  /\ Called(ingestLog[2], "verifyEvidence") = 1
  /\ ~ingestLog[2].result.ok
  /\ Len(ingestLog[2].signals) >= 1

\* verifyEvidence looks for the manifest at the path ingestReceipt read
SameManifestFile(call) ==
  NonEmptySegments(resolve(call.receiptPath))
    = NonEmptySegments(resolve(call.verifyDir)) \o Segments(ManifestPath)

RereadCodes ==
  {"MANIFEST_NOT_FOUND", "MANIFEST_HASH_MISMATCH", "MANIFEST_PARSE_FAIL",
   "MANIFEST_SCHEMA_INVALID", "DELIVERED_MISMATCH"}

\* C30: on a disk that does not change, when verifyEvidence is given the run
\* directory whose evidence/manifest.json is the file ingestReceipt read, the
\* verification reports none of MANIFEST_NOT_FOUND, MANIFEST_HASH_MISMATCH,
\* MANIFEST_PARSE_FAIL, MANIFEST_SCHEMA_INVALID and DELIVERED_MISMATCH, and
\* no UNSAFE_PATH for the manifest path.
C30_SameFileNeverFailsManifestChecks ==
  \A n \in 1..Len(ingestLog) :
    (Called(ingestLog[n], "verifyEvidence") = 1 /\ SameManifestFile(ingestLog[n])) =>
      /\ FailuresWithCode(ingestLog[n].verified.failures, RereadCodes) = <<>>
      /\ ~HasFailure(ingestLog[n].verified.failures, "UNSAFE_PATH", ManifestPath)

C30_Witness ==
  /\ Len(ingestLog) >= 1
  /\ ingestLog[1].receiptPath = RootReceiptPath
  /\ ingestLog[1].runDir = Undefined
  /\ SameManifestFile(ingestLog[1])
  /\ HasFailure(ingestLog[1].verified.failures, "UNSAFE_PATH", ManifestPath)

(***************************************************************************)
(* Order of the store operations of an ingest (SpecIngest).                *)
(***************************************************************************)
StoreOrder ==
  <<"upsertAgent", "insertSnapshot", "getLatestSnapshots", "scoreAgent", "insertRiskReport">>

PositionOf(call, name) == CHOOSE k \in 1..Len(call.calls) : call.calls[k] = name

\* the snapshots of the agent the report of this call was scored on
ScoredSnapshots(call) == call.result.reportId[3]

\* C31: every completed ingest calls upsertAgent, insertSnapshot,
\* getLatestSnapshots, scoreAgent and insertRiskReport once each in this
\* order; scoring sees the snapshot of the ingest (the first ingest scores
\* one snapshot); the report and the snapshot are in the store; insertAlerts
\* is called, last, exactly when scoring returned at least one alert.
C31_StoreOperationsInOrder ==
  \A n \in 1..Len(ingestLog) :
    ~ingestLog[n].threw =>
      /\ \A k \in 1..Len(StoreOrder) : Called(ingestLog[n], StoreOrder[k]) = 1
      /\ \A k \in 1..(Len(StoreOrder) - 1) :
           PositionOf(ingestLog[n], StoreOrder[k]) < PositionOf(ingestLog[n], StoreOrder[k + 1])
      /\ ScoredSnapshots(ingestLog[n]) >= 1
      /\ (\A m \in 1..(n - 1) : ingestLog[m].threw) => ScoredSnapshots(ingestLog[n]) = 1
      /\ Len(RowsOf(db.snapshots, SnapshotIdOf, ingestLog[n].result.snapshotId)) = 1
      /\ Len(RowsOf(db.reports, ReportIdOf, ingestLog[n].result.reportId)) = 1
      /\ Called(ingestLog[n], "insertAlerts") =
           (IF ingestLog[n].result.alertCount > 0 THEN 1 ELSE 0)
      /\ Called(ingestLog[n], "insertAlerts") = 1 =>
           /\ ingestLog[n].calls[Len(ingestLog[n].calls)] = "insertAlerts"
           /\ Len(RowsOf(db.alerts, AlertIdOf,
                         <<ingestLog[n].agentId, ingestLog[n].result.reportId[2], 1>>)) = 1

C31_Witness ==
  /\ Len(ingestLog) = 2
  /\ ~ingestLog[1].threw
  /\ ~ingestLog[2].threw
  /\ Called(ingestLog[1], "insertAlerts") = 1
  /\ Called(ingestLog[2], "insertAlerts") = 0
  /\ ScoredSnapshots(ingestLog[2]) = 2

(***************************************************************************)
(* Properties of POST /v1/receipts/ingest (SpecRoute).                     *)
(***************************************************************************)
Ingested == SelectSeq(replies, LAMBDA r : r.status # 400)

\* C32: a request without agentId or manifest is answered 400 and makes no
\* call of ingestReceipt; every other request makes one call, on
\* evidence/manifest.json of the temporary directory with that directory as
\* run directory, and is answered 200 with ok true only if the manifest has
\* no artifacts: a manifest with an artifact is ingested with ok false.
C32_RouteOkOnlyWithoutArtifacts ==
  /\ Len(ingestLog) = Len(Ingested)
  /\ \A k \in 1..Len(replies) :
       replies[k].status = 400
         <=> (replies[k].request.agentId = "" \/ ~replies[k].request.hasManifest)
  /\ \A n \in 1..Len(Ingested) :
       /\ Ingested[n].status = 200
       /\ Ingested[n].body = ingestLog[n].result
       /\ ingestLog[n].agentId = Ingested[n].request.agentId
       /\ ingestLog[n].receiptPath = TmpDir \o <<"/">> \o ManifestPath
       /\ ingestLog[n].runDir = TmpDir
       /\ Ingested[n].body.ok => Ingested[n].request.manifest.fields.artifacts = <<>>
       /\ Ingested[n].request.manifest.fields.artifacts # <<>> => ~Ingested[n].body.ok

C32_Witness ==
  /\ Len(replies) = 2
  /\ replies[1].status = 200
  /\ replies[1].body.ok
  /\ replies[2].status = 200
  /\ replies[2].request.manifest.fields.manifestVersion = "0.1.0"
  /\ Len(replies[2].request.manifest.fields.artifacts) = 1
  /\ replies[2].request.manifest.fields.artifacts[1].path = ManifestPath
  /\ ~replies[2].body.ok
  /\ HasFailure(ingestLog[2].verified.failures, "ARTIFACT_HASH_MISMATCH", ManifestPath)

(***************************************************************************)
(* validateRelativePath and paths whose segments begin with two dots       *)
(* (SpecPath).                                                             *)
(***************************************************************************)
\* C33: validateRelativePath accepts every non-empty, relative, null-free path
\* whose normalized form has no ".." segment; a segment that merely begins
\* with two dots ("..a") does not make the path invalid.
C33_NoDotDotSegmentIsValid ==
  pathOut.checked =>
    ( ( /\ Len(pathIn) > 0
        /\ ~isAbsolute(pathIn)
        /\ ~includes(pathIn, <<NUL>>)
        /\ ~HasDotDotSegment(normalize(pathIn)) )
      => pathOut.valid )

\* the segment "..a" begins with two dots, the path has no ".." segment, and
\* it is reported invalid
C33_Witness ==
  /\ pathOut.checked
  /\ pathIn = <<".", ".", "a">>
  /\ ~HasDotDotSegment(normalize(pathIn))
  /\ ~pathOut.valid

(***************************************************************************)
(* CircuitBreaker (packages/resilience).  The breaker is a record of the   *)
(* four private fields and the resolved configuration; Date.now() is the   *)
(* clock `now`.  JavaScript runs each of the steps below to completion, so *)
(* a call of execute is three atomic steps: the admission check up to the  *)
(* first await, and the continuation after fn resolved or rejected.        *)
(* The callbacks isFailure and onStateChange are taken to return normally. *)
(***************************************************************************)
MaxCallers == 2
MaxThreshold == 2
MaxTimeout == 2
MaxTrials == MaxThreshold + 1

CallerIds == 1..MaxCallers

\* errors a wrapped function rejects with
Errors == {"timeout", "revert"}

\* config.isFailure: the default counts every error, "transient" is a
\* caller's predicate that counts timeouts only
IsFailureChoices == {"all", "transient"}

isFailure(config, error) == config.isFailure = "all" \/ error = "timeout"

BreakerConfigs ==
  [failureThreshold : 1..MaxThreshold,
   resetTimeoutMs : 1..MaxTimeout,
   successThreshold : 1..MaxThreshold,
   isFailure : IsFailureChoices]

CircuitBreaker(config) ==
  [state |-> "closed", failures |-> 0, successes |-> 0, lastFailureTime |-> 0,
   config |-> config]

transitionTo_KeepsCounters(b, newState) ==
  IF b.state = newState THEN b ELSE [b EXCEPT !.state = newState]

transitionTo(b, newState) ==
  IF b.state = newState THEN b
  ELSE [b EXCEPT !.state = newState,
                 !.failures = IF newState = "closed" THEN 0 ELSE @,
                 !.successes = IF newState \in {"closed", "half-open"} THEN 0 ELSE @]

isAllowed_StrictlyAfterTimeout(b, t) ==
  IF b.state = "closed" THEN [allowed |-> TRUE, breaker |-> b]
  ELSE IF b.state = "open"
  THEN IF t - b.lastFailureTime > b.config.resetTimeoutMs
       THEN [allowed |-> TRUE, breaker |-> transitionTo(b, "half-open")]
       ELSE [allowed |-> FALSE, breaker |-> b]
  ELSE [allowed |-> TRUE, breaker |-> b]

\* isAllowed() at time t: the answer and the breaker it leaves
isAllowed(b, t) ==
  IF b.state = "closed" THEN [allowed |-> TRUE, breaker |-> b]
  ELSE IF b.state = "open"
  THEN LET elapsed == t - b.lastFailureTime
       IN IF elapsed >= b.config.resetTimeoutMs
          THEN [allowed |-> TRUE, breaker |-> transitionTo(b, "half-open")]
          ELSE [allowed |-> FALSE, breaker |-> b]
  ELSE [allowed |-> TRUE, breaker |-> b]

recordSuccess(b) ==
  IF b.state = "half-open"
  THEN LET counted == [b EXCEPT !.successes = @ + 1]
       IN IF counted.successes >= b.config.successThreshold
          THEN transitionTo(counted, "closed")
          ELSE counted
  ELSE IF b.state = "closed" THEN [b EXCEPT !.failures = 0]
  ELSE b

recordFailure(b, error, t) ==
  IF ~isFailure(b.config, error) THEN b
  ELSE LET counted == [b EXCEPT !.failures = @ + 1, !.lastFailureTime = t]
       IN IF b.state = "half-open" THEN transitionTo(counted, "open")
          ELSE IF b.state = "closed" /\ counted.failures >= b.config.failureThreshold
          THEN transitionTo(counted, "open")
          ELSE counted

reset(b) == transitionTo(b, "closed")

\* What the last step on the breaker did and the breaker it found, and three
\* counts kept for the properties: counted failures since the last success or
\* reset, calls admitted since the breaker entered half-open (up to
\* MaxTrials), and successes recorded while half-open since it was entered.
\* A step of the clock leaves no event behind.
NoEvent ==
  [op |-> "none", error |-> "", elapsed |-> 0,
   admitted |-> FALSE, invoked |-> FALSE, thrown |-> ""]

Event(op, error, elapsed, admitted, invoked, thrown) ==
  [op |-> op, error |-> error, elapsed |-> elapsed,
   admitted |-> admitted, invoked |-> invoked, thrown |-> thrown]

NoHistory(b) ==
  [last |-> NoEvent, before |-> b,
   sinceOk |-> 0, trials |-> 0, halfOpenSuccesses |-> 0]

Observe(h, ev, before, after) ==
  [last |-> ev, before |-> before,
   sinceOk |->
     IF ev.op \in {"recordSuccess", "reset"} THEN 0
     ELSE IF ev.op = "recordFailure" /\ isFailure(before.config, ev.error)
     THEN h.sinceOk + 1
     ELSE h.sinceOk,
   trials |->
     IF after.state # "half-open" THEN 0
     ELSE IF before.state # "half-open" THEN 1
     ELSE IF ev.admitted /\ h.trials < MaxTrials THEN h.trials + 1
     ELSE h.trials,
   halfOpenSuccesses |->
     IF before.state # "half-open" /\ after.state = "half-open" THEN 0
     ELSE IF ev.op = "recordSuccess" /\ before.state = "half-open"
     THEN h.halfOpenSuccesses + 1
     ELSE h.halfOpenSuccesses]

\* Date.now() - lastFailureTime, as far as the reset timeout can tell
Elapsed(b, t) ==
  IF t - b.lastFailureTime >= b.config.resetTimeoutMs
  THEN b.config.resetTimeoutMs
  ELSE t - b.lastFailureTime

\* callers is the number of calls of execute whose fn is pending
BreakerInit ==
  /\ \E config \in BreakerConfigs :
       /\ breaker = CircuitBreaker(config)
       /\ hist = NoHistory(CircuitBreaker(config))
  /\ callers = 0
  /\ now = 0
  /\ retry = NoRetry
  /\ replies = <<>>
  /\ pathIn = <<>>
  /\ baseIn = <<>>
  /\ pathOut = NoPathOut
  /\ receipt = IdleReceipt
  /\ runDir = <<>>
  /\ pc = "idle"
  /\ idx = 0
  /\ manifest = NoManifest
  /\ failures = <<>>
  /\ evidenceLinks = <<>>
  /\ fs = NoFs
  /\ trace = <<>>
  /\ result = NoResult
  /\ normIn = <<>>
  /\ normOut = <<>>
  /\ disk = NoFs
  /\ db = EmptyDb
  /\ ingestLog = <<>>
  /\ deriveOut = NotDerived

\* execute(fn) up to the first await: the admission check, then either the
\* CircuitOpenError or the call of fn
ExecuteCall ==
  /\ callers < MaxCallers
  /\ \E check \in {isAllowed(breaker, now)} :
       /\ breaker' = check.breaker
       /\ callers' = IF check.allowed THEN callers + 1 ELSE callers
       /\ hist' = Observe(hist,
                    Event("execute", "", Elapsed(breaker, now), check.allowed,
                          callers' = callers + 1,
                          IF check.allowed THEN "" ELSE "CircuitOpenError"),
                    breaker, check.breaker)
  /\ UNCHANGED <<replies, retry>>
  /\ UNCHANGED <<pathVars, verifyVars, normVars, ingestVars>>

\* fn resolved: recordSuccess() and the value is returned
ExecuteResolved ==
  /\ callers > 0
  /\ breaker' = recordSuccess(breaker)
  /\ callers' = callers - 1
  /\ hist' = Observe(hist, Event("recordSuccess", "", 0, FALSE, FALSE, ""),
                     breaker, breaker')
  /\ UNCHANGED <<replies, retry>>
  /\ UNCHANGED <<pathVars, verifyVars, normVars, ingestVars>>

\* fn rejected: recordFailure(error) and the error is rethrown.  A counted
\* failure is recorded only while the bounded clock can still run out the
\* reset timeout after it.
ExecuteRejected ==
  /\ callers > 0
  /\ \E error \in Errors :
       /\ isFailure(breaker.config, error) => now + breaker.config.resetTimeoutMs <= MaxClock
       /\ breaker' = recordFailure(breaker, error, now)
       /\ hist' = Observe(hist, Event("recordFailure", error, 0, FALSE, FALSE, error),
                          breaker, breaker')
  /\ callers' = callers - 1
  /\ UNCHANGED <<replies, retry>>
  /\ UNCHANGED <<pathVars, verifyVars, normVars, ingestVars>>

\* breaker.reset(), as ResilientIrsbClient.resetCircuit() calls it
ResetCircuit ==
  /\ breaker' = reset(breaker)
  /\ hist' = Observe(hist, Event("reset", "", 0, FALSE, FALSE, ""), breaker, breaker')
  /\ UNCHANGED <<replies, callers, retry>>
  /\ UNCHANGED <<pathVars, verifyVars, normVars, ingestVars>>

\* Date.now() advances
Advance ==
  /\ now < MaxClock
  /\ now' = now + 1
  /\ hist' = [hist EXCEPT !.last = NoEvent, !.before = breaker]
  /\ UNCHANGED <<disk, db, ingestLog>>
  /\ UNCHANGED <<replies, breaker, callers, retry>>
  /\ UNCHANGED <<pathVars, verifyVars, normVars>>

BreakerNext ==
  \/ ExecuteCall
  \/ ExecuteResolved
  \/ ExecuteRejected
  \/ ResetCircuit
  \/ Advance

SpecBreaker == BreakerInit /\ [][BreakerNext]_vars

\* Time passes and requests keep arriving.
BreakerFairness ==
  /\ WF_vars(Advance)
  /\ WF_vars(ExecuteCall)

SpecBreakerLive == BreakerInit /\ [][BreakerNext]_vars /\ BreakerFairness

(***************************************************************************)
(* withRetry (packages/resilience).  retry is the state of one call: the   *)
(* configuration, the loop's locals, the result once it has settled, and   *)
(* the log of the calls it made (fn, onRetry, sleep).  The loop runs to    *)
(* completion between its awaits: one step invokes fn and handles how it   *)
(* settled, one step ends a sleep.  isRetryable and onRetry are taken to   *)
(* return normally.                                                        *)
(***************************************************************************)
MaxRetries == 2

\* messages isDefaultRetryable looks for, each standing for an Error whose
\* message contains it
RetryableMessages ==
  {"network", "timeout", "econnrefused", "econnreset", "socket hang up", "fetch failed",
   "rate limit", "429", "too many requests", "internal server error", "502", "503",
   "504", "bad gateway", "service unavailable"}

isDefaultRetryable(error) == error \in RetryableMessages

\* config.isRetryable: the default, or a caller's predicate that retries all
isRetryable(config, error) ==
  IF config.isRetryable = "default" THEN isDefaultRetryable(error) ELSE TRUE

\* jitterFactor is jitterNum / 2; Math.random() makes the delay one of a set
RetryConfigs ==
  [maxRetries : -1..MaxRetries,
   baseDelayMs : {1},
   maxDelayMs : {2},
   jitterNum : {0, 1},
   isRetryable : {"default", "always"},
   onRetry : BOOLEAN]

RECURSIVE Pow2(_)
Pow2(n) == IF n <= 0 THEN 1 ELSE 2 * Pow2(n - 1)

\* the values calculateDelay can return: floor(capped + jitter) with jitter in
\* [-capped * jitterFactor, capped * jitterFactor)
calculateDelay(attempt, baseDelayMs, maxDelayMs, jitterNum) ==
  LET exponentialDelay == baseDelayMs * Pow2(attempt)
      cappedDelay == IF exponentialDelay < maxDelayMs THEN exponentialDelay ELSE maxDelayMs
  IN IF jitterNum = 0 THEN {cappedDelay}
     ELSE {d \in 0..(2 * cappedDelay) :
             /\ (d + 1) * 2 > cappedDelay * (2 - jitterNum)
             /\ d * 2 < cappedDelay * (2 + jitterNum)}

Unsettled ==
  [settled |-> "pending", success |-> FALSE, value |-> "", error |-> "",
   attempts |-> 0, totalDelayMs |-> 0]

RetryResult(success, value, error, attempts, totalDelayMs) ==
  [settled |-> "resolved", success |-> success, value |-> value, error |-> error,
   attempts |-> attempts, totalDelayMs |-> totalDelayMs]

\* for (attempt = 0; attempt <= maxRetries; ...): the loop body is entered, or
\* the failure result is returned
LoopTest(r) ==
  IF r.attempt <= r.config.maxRetries
  THEN [r EXCEPT !.pc = "invoke"]
  ELSE [r EXCEPT !.pc = "done",
                 !.result = RetryResult(FALSE, "", r.lastError, r.actualAttempts,
                                        r.totalDelayMs)]

\* withRetry(fn, config) up to the first await
withRetry(config) ==
  LoopTest([config |-> config, pc |-> "start", attempt |-> 0, actualAttempts |-> 0,
            totalDelayMs |-> 0, lastError |-> "undefined", result |-> Unsettled,
            log |-> <<>>])

ShouldRetry_WhateverTheError(r, error) == r.attempt < r.config.maxRetries

\* if (attempt < maxRetries && isRetryable(error))
ShouldRetry(r, error) ==
  r.attempt < r.config.maxRetries /\ isRetryable(r.config, error)

FnCall(outcome) == [call |-> "fn", outcome |-> outcome, attempt |-> 0, delayMs |-> 0]

OnRetryCall(attempt, error, delayMs) ==
  [call |-> "onRetry", outcome |-> error, attempt |-> attempt, delayMs |-> delayMs]

SleepCall(delayMs) == [call |-> "sleep", outcome |-> "", attempt |-> 0, delayMs |-> delayMs]

Resolved_CountsFromZero(r, value) ==
  [r EXCEPT !.actualAttempts = r.attempt,
            !.log = Append(@, FnCall("ok")),
            !.pc = "done",
            !.result = RetryResult(TRUE, value, "", r.attempt, r.totalDelayMs)]

\* fn resolved: return { success: true, value, attempts, totalDelayMs }
Resolved(r, value) ==
  [r EXCEPT !.actualAttempts = r.attempt + 1,
            !.log = Append(@, FnCall("ok")),
            !.pc = "done",
            !.result = RetryResult(TRUE, value, "", r.attempt + 1, r.totalDelayMs)]

\* fn rejected: the catch block, up to the sleep or the break and the return
Rejected(r, error, delayMs) ==
  IF ShouldRetry(r, error)
  THEN [r EXCEPT !.actualAttempts = r.attempt + 1,
                 !.lastError = error,
                 !.totalDelayMs = @ + delayMs,
                 !.log = Append(@, FnCall(error))
                         \o (IF r.config.onRetry
                             THEN <<OnRetryCall(r.attempt + 1, error, delayMs)>>
                             ELSE <<>>)
                         \o <<SleepCall(delayMs)>>,
                 !.pc = "sleep"]
  ELSE [r EXCEPT !.actualAttempts = r.attempt + 1,
                 !.lastError = error,
                 !.log = Append(@, FnCall(error)),
                 !.pc = "done",
                 !.result = RetryResult(FALSE, "", error, r.attempt + 1, r.totalDelayMs)]

RetryInit ==
  /\ \E config \in RetryConfigs : retry = withRetry(config)
  /\ breaker = NoBreaker
  /\ callers = <<>>
  /\ hist = <<>>
  /\ replies = <<>>
  /\ now = 0
  /\ pathIn = <<>>
  /\ baseIn = <<>>
  /\ pathOut = NoPathOut
  /\ receipt = IdleReceipt
  /\ runDir = <<>>
  /\ pc = "idle"
  /\ idx = 0
  /\ manifest = NoManifest
  /\ failures = <<>>
  /\ evidenceLinks = <<>>
  /\ fs = NoFs
  /\ trace = <<>>
  /\ result = NoResult
  /\ normIn = <<>>
  /\ normOut = <<>>
  /\ disk = NoFs
  /\ db = EmptyDb
  /\ ingestLog = <<>>
  /\ deriveOut = NotDerived

\* one iteration of the loop: fn is invoked and settles
RetryInvoke ==
  /\ retry.pc = "invoke"
  /\ \/ retry' = Resolved(retry, "value")
     \/ \E error \in Errors :
        \E delayMs \in calculateDelay(retry.attempt, retry.config.baseDelayMs,
                                      retry.config.maxDelayMs, retry.config.jitterNum) :
          retry' = Rejected(retry, error, delayMs)
  /\ UNCHANGED <<replies, breaker, callers, hist>>
  /\ UNCHANGED <<pathVars, verifyVars, normVars, ingestVars>>

\* the sleep is over: attempt++ and the loop test
RetryWake ==
  /\ retry.pc = "sleep"
  /\ retry' = LoopTest([retry EXCEPT !.attempt = @ + 1])
  /\ UNCHANGED <<replies, breaker, callers, hist>>
  /\ UNCHANGED <<pathVars, verifyVars, normVars, ingestVars>>

RetryNext == RetryInvoke \/ RetryWake

SpecRetry == RetryInit /\ [][RetryNext]_vars

\* fn settles and timers fire
SpecRetryLive == RetryInit /\ [][RetryNext]_vars /\ WF_vars(RetryNext)

(***************************************************************************)
(* resilient(fn, { retry, circuitBreaker }): one wrapped call at a time on *)
(* a breaker that is also reset by hand.  replies is the list of calls the *)
(* current wrapped call has made on the breaker.                           *)
(***************************************************************************)
\* retry configurations of the wrapped calls
ResilientRetryConfigs ==
  {c \in RetryConfigs : c.jitterNum = 0 /\ c.onRetry /\ c.isRetryable = "default"}

BreakerCall(name, answer) == [call |-> name, answer |-> answer]

RecordOutcome_PerAttempt(b, res, t) ==
  IF res.success THEN recordSuccess(b)
  ELSE IF res.attempts > 1
  THEN recordFailure(recordFailure(b, res.error, t), res.error, t)
  ELSE recordFailure(b, res.error, t)

\* if (result.success) recordSuccess() else recordFailure(result.error)
RecordOutcome(b, res, t) ==
  IF res.success THEN recordSuccess(b) ELSE recordFailure(b, res.error, t)

\* the wrapped function is called: the breaker is checked, then either the
\* CircuitOpenError is thrown or withRetry is started
ResilientCall ==
  /\ retry.pc \in {"idle", "refused", "returned"}
  /\ \E check \in {isAllowed(breaker, now)}, config \in ResilientRetryConfigs :
       /\ breaker' = check.breaker
       /\ replies' = <<BreakerCall("isAllowed", IF check.allowed THEN "true" ELSE "false")>>
       /\ retry' = IF check.allowed THEN withRetry(config) ELSE [pc |-> "refused"]
       /\ hist' = Observe(hist,
                    Event("resilient", "", Elapsed(breaker, now), check.allowed, FALSE,
                          IF check.allowed THEN "" ELSE "CircuitOpenError"),
                    breaker, check.breaker)
  /\ UNCHANGED callers
  /\ UNCHANGED <<pathVars, verifyVars, normVars, ingestVars>>

\* withRetry has resolved: the breaker is updated, then the value is returned
\* or the error thrown.  A counted failure is recorded only while the bounded
\* clock can still run out the reset timeout after it.
ResilientSettle ==
  /\ retry.pc = "done"
  /\ (~retry.result.success /\ isFailure(breaker.config, retry.result.error))
       => now + breaker.config.resetTimeoutMs <= MaxClock
  /\ breaker' = RecordOutcome(breaker, retry.result, now)
  /\ replies' = Append(replies,
                  IF retry.result.success
                  THEN BreakerCall("recordSuccess", "")
                  ELSE BreakerCall("recordFailure", retry.result.error))
  /\ retry' = [retry EXCEPT !.pc = "returned"]
  /\ hist' = Observe(hist,
               IF retry.result.success
               THEN Event("recordSuccess", "", 0, FALSE, FALSE, "")
               ELSE Event("recordFailure", retry.result.error, 0, FALSE, FALSE,
                          retry.result.error),
               breaker, breaker')
  /\ UNCHANGED callers
  /\ UNCHANGED <<pathVars, verifyVars, normVars, ingestVars>>

ResilientNext ==
  \/ ResilientCall
  \/ RetryInvoke
  \/ RetryWake
  \/ ResilientSettle
  \/ ResetCircuit
  \/ Advance

SpecResilient == BreakerInit /\ [][ResilientNext]_vars

(***************************************************************************)
(* Properties of the circuit breaker (SpecBreaker, SpecBreakerLive).       *)
(***************************************************************************)
CountedFailure ==
  hist.last.op = "recordFailure" /\ isFailure(hist.before.config, hist.last.error)

\* C34: a closed breaker opens exactly when the counted failures recorded since
\* the last success or reset reach failureThreshold, and a closed breaker
\* always has fewer than failureThreshold failures.
C34_OpensAtThresholdSinceSuccessOrReset ==
  /\ hist.before.state = "closed" =>
       ( breaker.state = "open"
         <=> (CountedFailure /\ hist.sinceOk = breaker.config.failureThreshold) )
  /\ breaker.state = "closed" => breaker.failures < breaker.config.failureThreshold

\* a closed breaker was opened by one counted failure after reset()
C34_Witness ==
  /\ hist.before.state = "closed"
  /\ breaker.state = "open"
  /\ CountedFailure
  /\ hist.sinceOk = 1
  /\ breaker.config.failureThreshold = 2

AdmissionCheck == hist.last.op = "execute"

\* an open breaker is checked before its timeout has elapsed: the call is
\* refused with CircuitOpenError, fn is not invoked, the breaker is unchanged
RefusedWhileOpen ==
  (AdmissionCheck /\ hist.before.state = "open"
     /\ hist.last.elapsed < hist.before.config.resetTimeoutMs)
  => /\ ~hist.last.admitted
     /\ ~hist.last.invoked
     /\ hist.last.thrown = "CircuitOpenError"
     /\ breaker = hist.before
     /\ breaker.state = "open"

\* an open breaker is checked once its timeout has elapsed: it becomes
\* half-open and the call is admitted
AdmittedAfterTimeout ==
  (AdmissionCheck /\ hist.before.state = "open"
     /\ hist.last.elapsed >= hist.before.config.resetTimeoutMs)
  => /\ breaker.state = "half-open"
     /\ hist.last.admitted
     /\ hist.last.invoked
     /\ hist.last.thrown = ""

EntersClosed == hist.before.state # "closed" /\ breaker.state = "closed"

EntersHalfOpen == hist.before.state # "half-open" /\ breaker.state = "half-open"

ClosedBySuccesses ==
  /\ hist.before.state = "half-open"
  /\ hist.last.op = "recordSuccess"
  /\ hist.halfOpenSuccesses >= breaker.config.successThreshold

HalfOpenFailureOpens ==
  (hist.before.state = "half-open" /\ CountedFailure) => breaker.state = "open"

CountersClearedOnEntry ==
  /\ EntersClosed => (breaker.failures = 0 /\ breaker.successes = 0)
  /\ EntersHalfOpen => breaker.successes = 0

\* C36 (as stated): in half-open one counted failure reopens the breaker; it
\* becomes closed only after successThreshold successes recorded while
\* half-open; entering closed clears both counters and entering half-open
\* clears the success counter.
C36_ClosedOnlyAfterSuccesses ==
  /\ HalfOpenFailureOpens
  /\ EntersClosed => ClosedBySuccesses
  /\ CountersClearedOnEntry

\* C36 (amended): as above, but the breaker also becomes closed by reset().
C36_ClosedOnlyAfterSuccessesOrReset ==
  /\ HalfOpenFailureOpens
  /\ EntersClosed => (ClosedBySuccesses \/ hist.last.op = "reset")
  /\ CountersClearedOnEntry

\* the second success recorded while half-open closed the breaker
C36_Witness ==
  /\ EntersClosed
  /\ ClosedBySuccesses
  /\ hist.halfOpenSuccesses = 2
  /\ breaker.config.successThreshold = 2
  /\ breaker.failures = 0

\* C37: between entering half-open and the next state transition at most
\* successThreshold calls are admitted, the call that made the breaker
\* half-open included, also when callers check admission concurrently.
C37_HalfOpenAdmitsAtMostThreshold ==
  breaker.state = "half-open" => hist.trials <= breaker.config.successThreshold

\* two calls are pending, both admitted by a half-open breaker that closes
\* after one success
C37_Witness ==
  /\ breaker.state = "half-open"
  /\ breaker.config.successThreshold = 1
  /\ hist.trials = 2
  /\ callers = 2
  /\ AdmissionCheck
  /\ hist.before.state = "half-open"

(***************************************************************************)
(* Properties of withRetry (SpecRetry, SpecRetryLive).                     *)
(***************************************************************************)
CallsOf(name) == {i \in 1..Len(retry.log) : retry.log[i].call = name}

Invocations == Cardinality(CallsOf("fn"))

SucceededCalls == {i \in CallsOf("fn") : retry.log[i].outcome = "ok"}

\* the error of the last invocation, undefined when fn was never invoked
LastErrorOf(log) ==
  LET fns == {i \in 1..Len(log) : log[i].call = "fn"}
  IN IF fns = {} THEN "undefined"
     ELSE log[CHOOSE i \in fns : \A k \in fns : k <= i].outcome

RetrySettled == retry.pc = "done"

RetryBounded ==
  /\ Invocations <= retry.config.maxRetries + 1
  /\ \A i \in SucceededCalls : i = Len(retry.log) /\ RetrySettled

RetryAnswer ==
  /\ ~RetrySettled => retry.result = Unsettled
  /\ RetrySettled =>
       /\ retry.result.settled = "resolved"
       /\ retry.result.success <=> SucceededCalls # {}
       /\ retry.result.success => (retry.result.value = "value" /\ retry.result.error = "")
       /\ ~retry.result.success => retry.result.error = LastErrorOf(retry.log)
       /\ retry.result.attempts = Invocations

RECURSIVE SleptMs(_)
SleptMs(log) ==
  IF log = <<>> THEN 0
  ELSE (IF log[1].call = "sleep" THEN log[1].delayMs ELSE 0) + SleptMs(Tail(log))

NotRetryable(i) ==
  /\ retry.log[i].call = "fn"
  /\ retry.log[i].outcome # "ok"
  /\ ~isRetryable(retry.config, retry.log[i].outcome)

\* the invocation at i of the log is a re-invocation announced by onRetry
Announced(i) ==
  /\ i > 3
  /\ retry.log[i - 1].call = "sleep"
  /\ retry.log[i - 2].call = "onRetry"
  /\ retry.log[i - 3].call = "fn"
  /\ retry.log[i - 2].outcome = retry.log[i - 3].outcome
  /\ retry.log[i - 2].delayMs = retry.log[i - 1].delayMs
  /\ retry.log[i - 2].attempt = Cardinality({k \in CallsOf("fn") : k < i})

\* the same without an onRetry callback
Unannounced(i) ==
  /\ i > 2
  /\ retry.log[i - 1].call = "sleep"
  /\ retry.log[i - 2].call = "fn"

\* C40: an invocation that fails with an error isRetryable refuses is the last
\* one: the result is a failure with that error, no delay and no onRetry call
\* follow it; onRetry is called once before each re-invocation and never after
\* the final attempt.
C40_NonRetryableStopsAndOnRetryPrecedes ==
  /\ \A i \in CallsOf("fn") :
       NotRetryable(i) =>
         /\ i = Len(retry.log)
         /\ RetrySettled
         /\ ~retry.result.success
         /\ retry.result.error = retry.log[i].outcome
  /\ retry.totalDelayMs = SleptMs(retry.log)
  /\ RetrySettled => retry.result.totalDelayMs = SleptMs(retry.log)
  /\ \A i \in CallsOf("fn") :
       i > 1 => IF retry.config.onRetry THEN Announced(i) ELSE Unannounced(i)
  /\ \A i \in CallsOf("onRetry") :
       /\ retry.config.onRetry
       /\ i < Len(retry.log)
       /\ retry.log[i + 1].call = "sleep"
  /\ RetrySettled =>
       /\ Len(retry.log) > 0 => retry.log[Len(retry.log)].call = "fn"
       /\ retry.config.onRetry =>
            Cardinality(CallsOf("onRetry")) = IF Invocations = 0 THEN 0 ELSE Invocations - 1
       /\ ~retry.config.onRetry => CallsOf("onRetry") = {}

\* a retried timeout, announced by onRetry, then an error that is not retried
C40_Witness ==
  /\ RetrySettled
  /\ retry.config.onRetry
  /\ retry.config.isRetryable = "default"
  /\ retry.config.maxRetries = 2
  /\ Len(retry.log) = 4
  /\ retry.log[1].outcome = "timeout"
  /\ retry.log[2].call = "onRetry"
  /\ retry.log[4].outcome = "revert"
  /\ retry.result.error = "revert"
  /\ retry.result.attempts = 2
  /\ retry.result.totalDelayMs = retry.log[3].delayMs

(***************************************************************************)
(* Properties of resilient() (SpecResilient).                              *)
(***************************************************************************)
Records == SelectSeq(replies, LAMBDA c : c.call \in {"recordSuccess", "recordFailure"})

WrappedCallMade == hist.last.op = "resilient"

\* the breaker is still open after the check: CircuitOpenError, and neither
\* withRetry nor fn is started
RefusedBeforeRetry ==
  (WrappedCallMade /\ breaker.state = "open")
  => /\ hist.last.thrown = "CircuitOpenError"
     /\ replies = <<BreakerCall("isAllowed", "false")>>
     /\ retry.pc = "refused"
     /\ breaker = hist.before

\* otherwise the retry loop runs, and fn is invoked only after the check has
\* admitted the call
RetryStartedAfterCheck ==
  /\ (WrappedCallMade /\ breaker.state # "open")
     => /\ hist.last.thrown = ""
        /\ replies = <<BreakerCall("isAllowed", "true")>>
        /\ retry.pc \in {"invoke", "sleep", "done"}
  /\ retry.pc = "refused" <=> replies = <<BreakerCall("isAllowed", "false")>>

\* nothing is recorded on the breaker while the retry loop runs
NothingRecordedDuringRetries ==
  retry.pc \in {"invoke", "sleep", "done"}
  => replies = <<BreakerCall("isAllowed", "true")>>

\* what the one record did to the breaker it found
RecordedOnce ==
  (hist.last.op \in {"recordSuccess", "recordFailure"} /\ retry.pc = "returned")
  => /\ hist.last.op = "recordSuccess" <=> retry.result.success
     /\ (hist.last.op = "recordFailure" /\ ~CountedFailure) => breaker = hist.before
     /\ CountedFailure =>
          /\ hist.last.error = retry.result.error
          /\ breaker.failures = hist.before.failures + 1
          /\ breaker.lastFailureTime = now
     /\ (hist.last.op = "recordSuccess" /\ hist.before.state = "closed") =>
          (breaker.failures = 0 /\ breaker.state = "closed")
     /\ (hist.last.op = "recordSuccess" /\ hist.before.state = "half-open") =>
          \/ breaker.successes = hist.before.successes + 1
          \/ breaker.state = "closed"

====
